---- MODULE Spec2Model ----
(***************************************************************************)
(* A state-machine model of the Lakha node core (src/core.py): the ledger, *)
(* the mempool, transaction processing, block production and append, and   *)
(* the key-value store with rehydration at start-up.                       *)
(*                                                                         *)
(* Amounts are floats in the source.  Here they are integers counted in    *)
(* hundredths of a token (Unit per token), which represents exactly every  *)
(* amount the model uses: 10,000,000.0 tokens is 10^9, the block reward    *)
(* 1.0 is 100, and gas_limit * 0.001 is exact for gas limits that are      *)
(* multiples of 10.  MAX_BALANCE (1e18 tokens in the source) does not fit  *)
(* a machine integer of the checker and is placed just above the genesis   *)
(* supply, so that the overflow branch of update_balance is exercised.     *)
(*                                                                         *)
(* A digest (sha256 of the canonical JSON of some fields) is modelled as   *)
(* the tagged tuple of exactly those fields: two digests are equal iff     *)
(* their preimages are.                                                    *)
(***************************************************************************)
EXTENDS Integers, Sequences, FiniteSets, TLC

VARIABLES
    chain,                  \* LahkaBlockchain.chain
    pending_transactions,   \* LahkaBlockchain.pending_transactions
    validators,             \* LahkaBlockchain.validators
    accounts,               \* Ledger.accounts
    contracts,              \* SmartContractEngine.contracts
    processed_tx_hashes,    \* LahkaBlockchain.processed_tx_hashes
    store,                  \* the LevelDB key space, by prefix
    now,                    \* time.time(), in whole seconds
    stops,                  \* how often the node has been stopped and started
    p2p,                    \* a connected peer node and the messages in flight
    threads,                \* the position of each thread inside this node
    last                    \* history: what the last operation did

vars == <<chain, pending_transactions, validators, accounts, contracts,
          processed_tx_hashes, store, now, stops, p2p, threads, last>>

----------------------------------------------------------------------------
(* Bounds of the model *)

MaxChain == 2       \* blocks in the chain, genesis included
MaxPending == 3     \* transactions pending at once
MaxContracts == 1   \* contracts ever deployed
MaxStops == 1       \* times the node is stopped and started again
MaxStakingChain == 4    \* blocks in the chain of the staking node

(* Program constants *)

Unit == 100                         \* hundredths per token
GENESIS_SUPPLY == 10000000 * Unit   \* create_account("genesis", 10000000.0)
MAX_BALANCE == GENESIS_SUPPLY + 50  \* stands for 1e18 tokens
minimum_stake == 10 * Unit
block_reward == 1 * Unit
MAX_BLOCK_TXS == 100
MEMPOOL_CAP == 10000
max_gas_limit == 1000000
GENESIS_TIMESTAMP == 1640995200
StartTime == GENESIS_TIMESTAMP + 1

\* gas_limit * self.gas_price with gas_price = 0.001 token per gas
GasCost(gas_limit) == (gas_limit * Unit) \div 1000

----------------------------------------------------------------------------
(* Addresses *)

special_addresses == {"genesis", "stake_pool"}
ContractAddrPool == <<"c1", "c2", "c3">>
ContractAddrs == {ContractAddrPool[i] : i \in 1..MaxContracts}
UserAddrs == {"A", "B"}

\* address.is_valid_address: the strings that decode as 20-byte Bech32
is_valid_address(address) == address \in UserAddrs \cup ContractAddrs

----------------------------------------------------------------------------
(* Small helpers *)

Put(f, k, v) == (k :> v) @@ f

\* the one value of a local variable: {body : name \in {value}} evaluates
\* the value once and the body with the name bound to it
Only(S) == CHOOSE v \in S : TRUE

Min(a, b) == IF a < b THEN a ELSE b
Max(a, b) == IF a > b THEN a ELSE b

RECURSIVE RemoveFirst(_, _)
\* list.remove(x): drop the first element equal to x
RemoveFirst(seq, x) ==
    IF seq = <<>> THEN <<>>
    ELSE IF Head(seq) = x THEN Tail(seq)
    ELSE <<Head(seq)>> \o RemoveFirst(Tail(seq), x)

InSeq(x, seq) == \E i \in 1..Len(seq) : seq[i] = x

----------------------------------------------------------------------------
(* Transactions and blocks *)

\* a TransactionType member, or (after a reload from the store) its value
Enum(value) == [value |-> value, is_enum |-> TRUE]
Str(value) == [value |-> value, is_enum |-> FALSE]

NoData == <<>>

\* Transaction.calculate_hash: the digest of every field but signature, hash
Transaction_calculate_hash(tx) ==
    <<"tx", [from_address |-> tx.from_address,
             to_address |-> tx.to_address,
             amount |-> tx.amount,
             transaction_type |-> tx.transaction_type.value,
             data |-> tx.data,
             gas_limit |-> tx.gas_limit,
             gas_price |-> tx.gas_price,
             nonce |-> tx.nonce,
             timestamp |-> tx.timestamp]>>

\* Transaction.to_dict
Transaction_to_dict(tx) ==
    [tx EXCEPT !.transaction_type = Str(tx.transaction_type.value)]

\* Transaction(...) with __post_init__: the hash is computed at construction
Transaction(from, to, amount, type, data, gas_limit, gas_price, nonce) ==
    Only({[t EXCEPT !.hash = Transaction_calculate_hash(t)]
          : t \in {[from_address |-> from, to_address |-> to, amount |-> amount,
                    transaction_type |-> Enum(type), data |-> data,
                    gas_limit |-> gas_limit, gas_price |-> gas_price,
                    nonce |-> nonce, timestamp |-> 0, signature |-> "",
                    hash |-> <<"none">>]}})

\* Block.calculate_hash
Block_calculate_hash(b) ==
    <<"block", [index |-> b.index,
                timestamp |-> b.timestamp,
                transactions |-> [i \in 1..Len(b.transactions) |->
                                     Transaction_to_dict(b.transactions[i])],
                previous_hash |-> b.previous_hash,
                validator |-> b.validator,
                state_root |-> b.state_root,
                nonce |-> b.nonce]>>

\* Block.to_dict
Block_to_dict(b) ==
    [b EXCEPT !.transactions = [i \in 1..Len(b.transactions) |->
                                   Transaction_to_dict(b.transactions[i])]]

\* Block(...) with __post_init__
Block(index, timestamp, transactions, previous_hash, validator, state_root) ==
    Only({[b EXCEPT !.hash = Block_calculate_hash(b)]
          : b \in {[index |-> index, timestamp |-> timestamp,
                    transactions |-> transactions,
                    previous_hash |-> previous_hash, validator |-> validator,
                    state_root |-> state_root, nonce |-> 0,
                    hash |-> <<"none">>]}})

----------------------------------------------------------------------------
(* The node as a value.  Every operator below takes the node n before a    *)
(* call and returns the node after it.  n.exc says that the call raised;   *)
(* what the call changed before raising stays changed, as in the source.   *)
(* n.writes lists the store writes of the current operation in order, and  *)
(* n.ublog the update_balance calls it made.                               *)

Raise(n) == [n EXCEPT !.exc = TRUE]

\* LevelDBStorage.put_account / put_validator / put_contract / put_block
StorePut(n, prefix, key, value) ==
    [n EXCEPT !.store[prefix] = Put(@, key, value),
              !.writes = Append(@, <<prefix, key, value>>)]

\* Account.to_dict (timestamps are not modelled)
Account_to_dict(account) ==
    [address |-> account.address, balance |-> account.balance,
     nonce |-> account.nonce]

\* hundredths per unit of the penalty multiplier
PenaltyUnit == 100

\* Validator(address, stake), for the fields modelled
Validator(address, stake) ==
    [address |-> address, stake |-> stake, is_active |-> TRUE,
     blocks_validated |-> 0, txs_processed |-> 0,
     penalty_history |-> <<>>,
     current_penalty_multiplier |-> 1 * PenaltyUnit,
     rehabilitation_progress |-> 0]

\* Validator.to_dict
Validator_to_dict(validator) ==
    [address |-> validator.address, stake |-> validator.stake,
     is_active |-> validator.is_active,
     blocks_validated |-> validator.blocks_validated,
     txs_processed |-> validator.txs_processed,
     penalty_history |-> validator.penalty_history,
     current_penalty_multiplier |-> validator.current_penalty_multiplier,
     rehabilitation_progress |-> validator.rehabilitation_progress]

\* ContractState.to_dict
ContractState_to_dict(contract) ==
    [contract_address |-> contract.contract_address, data |-> contract.data,
     code |-> contract.code, owner |-> contract.owner,
     status |-> contract.status]

put_account(n, address) ==
    IF address \in DOMAIN n.accounts
    THEN StorePut(n, "account", address, Account_to_dict(n.accounts[address]))
    ELSE Raise(n)     \* put_account(None): AttributeError

put_validator(n, address) ==
    StorePut(n, "validator", address, Validator_to_dict(n.validators[address]))

put_contract(n, address) ==
    StorePut(n, "contract", address, ContractState_to_dict(n.contracts[address]))

put_block(n, block) ==
    StorePut(n, "block", block.index, Block_to_dict(block))

----------------------------------------------------------------------------
(* Ledger *)

\* Ledger.create_account
create_account(n, address, initial_balance) ==
    IF address \in DOMAIN n.accounts THEN n
    ELSE IF address \notin special_addresses /\ ~is_valid_address(address)
    THEN Raise(n)
    ELSE put_account(
           [n EXCEPT !.accounts = Put(@, address,
               [address |-> address, balance |-> initial_balance, nonce |-> 0])],
           address)

\* Ledger.get_balance
get_balance(n, address) ==
    IF address \in DOMAIN n.accounts THEN n.accounts[address].balance ELSE 0

UpdateBalanceNoUpperBound(n, address, amount) ==
    Only({IF n1.exc THEN n1
          ELSE LET old_balance == n1.accounts[address].balance
                   new_balance == old_balance + amount
               IN  Only({[n2 EXCEPT !.ublog = Append(@,
                            [address |-> address, amount |-> amount,
                             old_balance |-> old_balance, raised |-> n2.exc,
                             balance_after |-> n2.accounts[address].balance])]
                         : n2 \in {IF new_balance < 0
                                   THEN Raise(n1)
                                   ELSE put_account(
                                          [n1 EXCEPT !.accounts[address].balance =
                                                        new_balance],
                                          address)}})
          : n1 \in {create_account(n, address, 0)}})

\* Ledger.update_balance (get_or_create_account inlined); the call is
\* logged in n.ublog with the balance it left
update_balance(n, address, amount) ==
    Only({IF n1.exc THEN n1
          ELSE LET old_balance == n1.accounts[address].balance
                   new_balance == old_balance + amount
               IN  Only({[n2 EXCEPT !.ublog = Append(@,
                            [address |-> address, amount |-> amount,
                             old_balance |-> old_balance, raised |-> n2.exc,
                             balance_after |-> n2.accounts[address].balance])]
                         : n2 \in {IF new_balance < 0 \/ new_balance > MAX_BALANCE
                                   THEN Raise(n1)
                                   ELSE put_account(
                                          [n1 EXCEPT !.accounts[address].balance =
                                                        new_balance],
                                          address)}})
          : n1 \in {create_account(n, address, 0)}})

\* Ledger.record_transaction: debit (n1), credit (n2), gas debit
record_transaction(n, from_address, to_address, amount, gas_cost) ==
    Only({IF n2.exc THEN n2
          ELSE IF gas_cost > 0 /\ from_address # ""
          THEN update_balance(n2, from_address, -gas_cost) ELSE n2
          : n2 \in {Only({IF n1.exc THEN n1
                          ELSE IF to_address # "" /\ amount > 0
                          THEN update_balance(n1, to_address, amount) ELSE n1
                          : n1 \in {IF from_address # "" /\ amount > 0
                                    THEN update_balance(n, from_address, -amount)
                                    ELSE n}})}})

----------------------------------------------------------------------------
(* Contract engine.  A contract value is a tagged value; None is a value.  *)

IntVal(v) == [t |-> "int", v |-> v]
NoneVal == [t |-> "none", v |-> 0]
TrueVal == [t |-> "bool", v |-> 1]

\* SmartContractEngine._sanitize_contract_state: entries whose value is
\* None are dropped (keys are strings already)
sanitize_contract_state(state) ==
    [k \in {j \in DOMAIN state : state[j] # NoneVal} |-> state[k]]

\* SmartContractEngine.deploy_contract; contract_address is the address that
\* generate_address() returned
deploy_contract(n, contract_code, initial_state, deployer_address, gas_limit, contract_address) ==
    IF gas_limit > max_gas_limit THEN Raise(n)
    ELSE [n EXCEPT !.contracts = Put(@, contract_address,
            [contract_address |-> contract_address,
             data |-> sanitize_contract_state(initial_state),
             code |-> contract_code,
             owner |-> deployer_address,
             status |-> "active"])]

\* an engine whose set_state keeps the value a key already has
call_contract_keep_first(n, contract_address, function_name, args) ==
    IF contract_address \notin DOMAIN n.contracts
    THEN [node |-> Raise(n), result |-> NoneVal]
    ELSE IF function_name = "set_state" /\ Len(args) >= 2
    THEN [node |-> [n EXCEPT !.contracts[contract_address].data =
                                 IF args[1] \in DOMAIN @ THEN @
                                 ELSE Put(@, args[1], args[2])],
          result |-> TrueVal]
    ELSE [node |-> Raise(n), result |-> NoneVal]

\* SmartContractEngine.call_contract with _execute_contract_function;
\* returns the node and the value returned (meaningful when n.exc is FALSE)
call_contract(n, contract_address, function_name, args) ==
    IF contract_address \notin DOMAIN n.contracts
    THEN [node |-> Raise(n), result |-> NoneVal]
    ELSE IF n.contracts[contract_address].status # "active"
    THEN [node |-> Raise(n), result |-> NoneVal]
    ELSE IF function_name = "set_state"
    THEN IF Len(args) < 2
         THEN [node |-> Raise(n), result |-> NoneVal]     \* IndexError
         ELSE [node |-> [n EXCEPT !.contracts[contract_address].data =
                                      Put(@, args[1], args[2])],
               result |-> TrueVal]
    ELSE IF function_name = "get_state"
    THEN IF Len(args) < 1
         THEN [node |-> Raise(n), result |-> NoneVal]
         ELSE [node |-> n,
               result |-> IF args[1] \in DOMAIN n.contracts[contract_address].data
                          THEN n.contracts[contract_address].data[args[1]]
                          ELSE NoneVal]
    ELSE [node |-> Raise(n), result |-> NoneVal]  \* function not implemented

\* a dict returned as a whole (its content is not part of the value)
DictVal == [t |-> "dict", v |-> 0]

\* key_path.split('.') for the key paths read and written
KeyPath(key_path) ==
    IF key_path = "total.count" THEN <<"total", "count">> ELSE <<key_path>>

\* SmartContractEngine.get_contract_state: the whole data for an empty key
\* path, else the walk down the segments of the path.  The values of the
\* model are scalars, so a walk of two segments or more ends at None.
get_contract_state(n, contract_address, key_path) ==
    IF contract_address \notin DOMAIN n.contracts
    THEN [raised |-> TRUE, result |-> NoneVal]
    ELSE IF key_path = ""
    THEN [raised |-> FALSE, result |-> DictVal]
    ELSE Only({[raised |-> FALSE,
                result |-> IF Len(keys) = 1 /\ keys[1] \in DOMAIN data
                           THEN data[keys[1]] ELSE NoneVal]
               : keys \in {KeyPath(key_path)},
                 data \in {n.contracts[contract_address].data}})

----------------------------------------------------------------------------
(* Mempool admission *)

IsContractKind(tx) ==
    tx.transaction_type.value \in {"contract_deploy", "contract_call"}

\* LahkaBlockchain.validate_transaction
validate_transaction(n, tx) ==
    LET gas_cost == GasCost(tx.gas_limit)
        total_cost == tx.amount + gas_cost
        kind == tx.transaction_type.value
    IN  /\ ~(get_balance(n, tx.from_address) < total_cost)
        /\ kind = "transfer" => ~(tx.amount <= 0)
        /\ kind = "contract_deploy" =>
             ("contract_code" \in DOMAIN tx.data /\ tx.data["contract_code"] # "")
        /\ kind = "contract_call" =>
             ("contract_address" \in DOMAIN tx.data
                 /\ tx.data["contract_address"] # "")
        /\ kind = "stake" => ~(tx.amount < minimum_stake)

NonceCheckNoPendingScan(n, tx) ==
    IF tx.from_address \notin DOMAIN n.accounts
    THEN [pass |-> TRUE, node |-> n]
    ELSE LET expected_nonce == n.accounts[tx.from_address].nonce
             lenient == tx.from_address = "genesis" /\ tx.nonce > expected_nonce
         IN  IF tx.nonce # expected_nonce /\ ~lenient
             THEN [pass |-> FALSE, node |-> n]
             ELSE [pass |-> TRUE,
                   node |-> IF tx.nonce # expected_nonce
                            THEN put_account(
                                   [n EXCEPT !.accounts["genesis"].nonce = tx.nonce],
                                   "genesis")
                            ELSE n]

\* the nonce step of add_transaction: the node after it, and whether the
\* transaction survived it
NonceCheck(n, tx) ==
    IF tx.from_address \notin DOMAIN n.accounts
    THEN [pass |-> TRUE, node |-> n]
    ELSE LET expected_nonce == n.accounts[tx.from_address].nonce
             lenient == tx.from_address = "genesis" /\ tx.nonce > expected_nonce
         IN  IF tx.nonce # expected_nonce /\ ~lenient
             THEN [pass |-> FALSE, node |-> n]
             ELSE Only({[pass |-> ~\E i \in 1..Len(n1.pending_transactions) :
                                    /\ n1.pending_transactions[i].from_address
                                          = tx.from_address
                                    /\ n1.pending_transactions[i].nonce = tx.nonce,
                         node |-> n1]
                        : n1 \in {IF tx.nonce # expected_nonce
                                  THEN put_account(
                                         [n EXCEPT !.accounts["genesis"].nonce =
                                                      tx.nonce],
                                         "genesis")
                                  ELSE n}})

AddTransactionNoSenderCheck(n, tx) ==
    LET reject(m) == [ok |-> FALSE, node |-> m]
    IN  IF ~IsContractKind(tx)
           /\ (tx.to_address = ""
               \/ (tx.to_address \notin special_addresses
                   /\ ~is_valid_address(tx.to_address)))
        THEN reject(n)
        ELSE IF tx.to_address = "stake_pool" /\ tx.transaction_type.value # "stake"
        THEN reject(n)
        ELSE IF tx.hash \in n.processed_tx_hashes
        THEN reject(n)
        ELSE IF \E i \in 1..Len(n.pending_transactions) :
                   n.pending_transactions[i].hash = tx.hash
        THEN reject(n)
        ELSE Only({IF ~c.pass THEN reject(c.node)
                   ELSE IF tx.gas_limit <= 0 \/ tx.gas_price <= 0
                   THEN reject(c.node)
                   ELSE IF tx.amount < 0 THEN reject(c.node)
                   ELSE IF ~validate_transaction(c.node, tx) THEN reject(c.node)
                   ELSE IF Len(c.node.pending_transactions) >= MEMPOOL_CAP
                   THEN reject(c.node)
                   ELSE [ok |-> TRUE,
                         node |-> [c.node EXCEPT !.pending_transactions =
                                                     Append(@, tx)]]
                   : c \in {NonceCheck(n, tx)}})

AddTransactionNoReplayCheck(n, tx) ==
    LET reject(m) == [ok |-> FALSE, node |-> m]
    IN  IF tx.from_address = ""
           \/ (tx.from_address # "genesis" /\ ~is_valid_address(tx.from_address))
        THEN reject(n)
        ELSE IF ~IsContractKind(tx)
                /\ (tx.to_address = ""
                    \/ (tx.to_address \notin special_addresses
                        /\ ~is_valid_address(tx.to_address)))
        THEN reject(n)
        ELSE IF tx.to_address = "stake_pool" /\ tx.transaction_type.value # "stake"
        THEN reject(n)
        ELSE IF \E i \in 1..Len(n.pending_transactions) :
                   n.pending_transactions[i].hash = tx.hash
        THEN reject(n)
        ELSE Only({IF ~c.pass THEN reject(c.node)
                   ELSE IF tx.gas_limit <= 0 \/ tx.gas_price <= 0
                   THEN reject(c.node)
                   ELSE IF tx.amount < 0 THEN reject(c.node)
                   ELSE IF ~validate_transaction(c.node, tx) THEN reject(c.node)
                   ELSE IF Len(c.node.pending_transactions) >= MEMPOOL_CAP
                   THEN reject(c.node)
                   ELSE [ok |-> TRUE,
                         node |-> [c.node EXCEPT !.pending_transactions =
                                                     Append(@, tx)]]
                   : c \in {NonceCheck(n, tx)}})

\* LahkaBlockchain.add_transaction: the value returned and the node after
add_transaction(n, tx) ==
    LET reject(m) == [ok |-> FALSE, node |-> m]
    IN  IF tx.from_address = ""
           \/ (tx.from_address # "genesis" /\ ~is_valid_address(tx.from_address))
        THEN reject(n)
        ELSE IF ~IsContractKind(tx)
                /\ (tx.to_address = ""
                    \/ (tx.to_address \notin special_addresses
                        /\ ~is_valid_address(tx.to_address)))
        THEN reject(n)
        ELSE IF tx.to_address = "stake_pool" /\ tx.transaction_type.value # "stake"
        THEN reject(n)
        ELSE IF tx.hash \in n.processed_tx_hashes
        THEN reject(n)
        ELSE IF \E i \in 1..Len(n.pending_transactions) :
                   n.pending_transactions[i].hash = tx.hash
        THEN reject(n)
        ELSE Only({IF ~c.pass THEN reject(c.node)
                   ELSE IF tx.gas_limit <= 0 \/ tx.gas_price <= 0
                   THEN reject(c.node)
                   ELSE IF tx.amount < 0 THEN reject(c.node)
                   ELSE IF ~validate_transaction(c.node, tx) THEN reject(c.node)
                   ELSE IF Len(c.node.pending_transactions) >= MEMPOOL_CAP
                   THEN reject(c.node)
                   ELSE [ok |-> TRUE,
                         node |-> [c.node EXCEPT !.pending_transactions =
                                                     Append(@, tx)]]
                   : c \in {NonceCheck(n, tx)}})

----------------------------------------------------------------------------
(* State transition *)

\* the except branch of a contract deployment or call: n1 is the node after
\* the try body; on an exception the gas cost is credited ("Gas cost
\* reverted") and the exception is raised again
GasRevert(n1, from_address, gas_cost) ==
    IF n1.exc
    THEN Raise(update_balance([n1 EXCEPT !.exc = FALSE], from_address, gas_cost))
    ELSE n1

\* process_transaction, TRANSFER branch
ProcessTransfer(n1, tx, gas_cost) ==
    Only({IF n3.exc THEN n3 ELSE put_account(n3, tx.to_address)
          : n3 \in {Only({IF n2.exc THEN n2 ELSE put_account(n2, tx.from_address)
                          : n2 \in {record_transaction(n1, tx.from_address,
                                       tx.to_address, tx.amount, gas_cost)}})}})

\* process_transaction, the try body of the CONTRACT_DEPLOY branch: deploy
\* (d1), note the address in the transaction, store the contract (d2),
\* debit the gas
DeployTry(n1, tx, gas_cost, new_address) ==
    Only({IF d1.exc THEN [node |-> d1, tx |-> tx]
          ELSE [node |-> Only({IF d2.exc THEN d2
                               ELSE update_balance(d2, tx.from_address, -gas_cost)
                               : d2 \in {put_contract(d1, new_address)}}),
                tx |-> [tx EXCEPT !.data =
                           Put(@, "deployed_address", new_address)]]
          : d1 \in {deploy_contract(n1, tx.data["contract_code"],
                       IF "initial_state" \in DOMAIN tx.data
                       THEN tx.data["initial_state"] ELSE <<>>,
                       tx.from_address, tx.gas_limit, new_address)}})

\* process_transaction, CONTRACT_DEPLOY branch
ProcessDeploy(n1, tx, gas_cost, new_address) ==
    IF "contract_code" \notin DOMAIN tx.data
    THEN [node |-> Raise(n1), tx |-> tx]     \* KeyError
    ELSE Only({Only({[node |-> IF d4.exc THEN d4
                               ELSE put_account(d4, tx.from_address),
                      tx |-> t.tx]
                     : d4 \in {GasRevert(t.node, tx.from_address, gas_cost)}})
               : t \in {DeployTry(n1, tx, gas_cost, new_address)}})

\* process_transaction, the try body of the CONTRACT_CALL branch: call (c1),
\* note the result in the transaction, store the contract (c2), debit the gas
CallTry(n1, tx, gas_cost) ==
    Only({IF c1.node.exc THEN [node |-> c1.node, tx |-> tx]
          ELSE [node |-> Only({IF c2.exc THEN c2
                               ELSE update_balance(c2, tx.from_address, -gas_cost)
                               : c2 \in {put_contract(c1.node,
                                            tx.data["contract_address"])}}),
                tx |-> [tx EXCEPT !.data = Put(@, "result", c1.result)]]
          : c1 \in {call_contract(n1, tx.data["contract_address"],
                       tx.data["function_name"],
                       IF "args" \in DOMAIN tx.data THEN tx.data["args"] ELSE <<>>)}})

\* process_transaction, CONTRACT_CALL branch
ProcessCall(n1, tx, gas_cost) ==
    IF "contract_address" \notin DOMAIN tx.data
       \/ "function_name" \notin DOMAIN tx.data
    THEN [node |-> Raise(n1), tx |-> tx]     \* KeyError
    ELSE Only({Only({[node |-> IF c4.exc THEN c4
                               ELSE put_account(c4, tx.from_address),
                      tx |-> t.tx]
                     : c4 \in {GasRevert(t.node, tx.from_address, gas_cost)}})
               : t \in {CallTry(n1, tx, gas_cost)}})

\* process_transaction, STAKE branch: the moves (s2), the validator entry
\* (s3), the two store writes
ProcessStake(n1, tx, gas_cost) ==
    Only({Only({IF s4.exc THEN s4 ELSE put_validator(s4, tx.from_address)
                : s4 \in {IF s3.exc THEN s3
                          ELSE put_account(s3, tx.from_address)}})
          : s3 \in {Only({IF s2.exc \/ tx.from_address \in DOMAIN s2.validators
                          THEN s2
                          ELSE [s2 EXCEPT !.validators = Put(@, tx.from_address,
                                  Validator(tx.from_address, tx.amount))]
                          : s2 \in {record_transaction(n1, tx.from_address,
                                       "stake_pool", tx.amount, gas_cost)}})}})

\* LahkaBlockchain.process_transaction: the node after the call (exc set if
\* it raised) and the transaction object, whose data the call may extend.
\* new_address is the address generate_address() returns for a deployment.
\* n1 is the node once the hash is recorded and the sender's nonce raised.
process_transaction(n, tx, new_address) ==
    LET gas_cost == GasCost(tx.gas_limit)
        kind == tx.transaction_type.value
    IN  Only({IF kind = "transfer"
              THEN [node |-> ProcessTransfer(n1, tx, gas_cost), tx |-> tx]
              ELSE IF kind = "contract_deploy"
              THEN ProcessDeploy(n1, tx, gas_cost, new_address)
              ELSE IF kind = "contract_call"
              THEN ProcessCall(n1, tx, gas_cost)
              ELSE IF kind = "stake"
              THEN [node |-> ProcessStake(n1, tx, gas_cost), tx |-> tx]
              ELSE [node |-> n1, tx |-> tx]          \* UNSTAKE: no branch
              : n1 \in {IF tx.from_address \in DOMAIN n.accounts
                        THEN [n EXCEPT
                                !.processed_tx_hashes = @ \cup {tx.hash},
                                !.accounts[tx.from_address].nonce = @ + 1]
                        ELSE [n EXCEPT
                                !.processed_tx_hashes = @ \cup {tx.hash}]}})

TransactionTypes == {"transfer", "contract_deploy", "contract_call", "stake",
                     "unstake"}

\* Transaction(**tx_copy) after transaction_type = TransactionType(...): the
\* hash of the message is kept when it has one
Transaction_from_dict(d) ==
    Only({IF t.hash = <<"none">>
          THEN [t EXCEPT !.hash = Transaction_calculate_hash(t)] ELSE t
          : t \in {[d EXCEPT !.transaction_type = Enum(d.transaction_type.value)]}})

\* LahkaBlockchain.handle_incoming_transaction: the node after the message;
\* an exception inside is caught and printed
handle_incoming_transaction(n, tx_data) ==
    IF tx_data.hash # <<"none">>
       /\ tx_data.hash \notin n.processed_tx_hashes
       /\ \A i \in 1..Len(n.pending_transactions) :
              n.pending_transactions[i].hash # tx_data.hash
    THEN IF tx_data.transaction_type.value \notin TransactionTypes
         THEN [ok |-> FALSE, node |-> n]             \* ValueError, caught
         ELSE Only({IF validate_transaction(n, tx)
                    THEN add_transaction(n, tx)
                    ELSE [ok |-> FALSE, node |-> n]
                    : tx \in {Transaction_from_dict(tx_data)}})
    ELSE [ok |-> FALSE, node |-> n]

----------------------------------------------------------------------------
(* Blocks *)

\* LahkaBlockchain.get_latest_block
get_latest_block(n) == n.chain[Len(n.chain)]

\* LahkaBlockchain._calculate_state_root: the digest of the ledger and
\* contract snapshots (the journal of ledger entries is not modelled)
calculate_state_root(n) ==
    <<"state", [ledger |-> [a \in DOMAIN n.accounts |->
                               Account_to_dict(n.accounts[a])],
                contracts |-> [c \in DOMAIN n.contracts |->
                                  ContractState_to_dict(n.contracts[c])]]>>

\* create_block that takes the whole mempool
create_block_whole_mempool(n, validator_address, timestamp) ==
    Block(Len(n.chain), timestamp, n.pending_transactions,
          get_latest_block(n).hash, validator_address, calculate_state_root(n))

\* LahkaBlockchain.create_block
create_block(n, validator_address, timestamp) ==
    Block(Len(n.chain), timestamp,
          SubSeq(n.pending_transactions, 1,
                 Min(MAX_BLOCK_TXS, Len(n.pending_transactions))),
          get_latest_block(n).hash, validator_address, calculate_state_root(n))

ValidateBlockNoValidatorCheck(n, block) ==
    /\ block.index = Len(n.chain)
    /\ block.previous_hash = get_latest_block(n).hash
    /\ block.hash = Block_calculate_hash(block)

ValidateBlockNoLinkCheck(n, block) ==
    /\ block.index = Len(n.chain)
    /\ (block.validator = "genesis" \/ block.validator \in DOMAIN n.validators)
    /\ block.hash = Block_calculate_hash(block)

\* LahkaBlockchain.validate_block
validate_block(n, block) ==
    /\ block.index = Len(n.chain)
    /\ block.previous_hash = get_latest_block(n).hash
    /\ (block.validator = "genesis" \/ block.validator \in DOMAIN n.validators)
    /\ block.hash = Block_calculate_hash(block)

IsDeploy(tx) == tx.transaction_type.value = "contract_deploy"

RECURSIVE ProcessAll(_, _, _)
\* the first loop of add_block: every transaction is processed in order; one
\* that raises is skipped and the loop continues.  Returns the node, the
\* transaction objects as the calls left them, and one log entry per
\* transaction.  new_addresses are the addresses generate_address() returns.
ProcessAll(n, txs, new_addresses) ==
    IF txs = <<>> THEN [node |-> n, txs |-> <<>>, txlog |-> <<>>]
    ELSE Only({Only({[node |-> rest.node, txs |-> <<r.tx>> \o rest.txs,
                      txlog |-> <<[tx |-> Head(txs), raised |-> r.node.exc,
                                   before |-> n.accounts,
                                   after |-> r.node.accounts]>> \o rest.txlog]
                     : rest \in {ProcessAll([r.node EXCEPT !.exc = FALSE],
                                    Tail(txs),
                                    IF IsDeploy(Head(txs))
                                    THEN Tail(new_addresses) ELSE new_addresses)}})
               : r \in {IF Head(txs).transaction_type.is_enum
                        THEN process_transaction(n, Head(txs),
                                IF IsDeploy(Head(txs))
                                THEN Head(new_addresses) ELSE "")
                        ELSE [node |-> Raise(n), tx |-> Head(txs)]}})
                        \* a str has no .value: AttributeError

RECURSIVE RemoveAll(_, _)
\* the second loop of add_block
RemoveAll(pending, txs) ==
    IF txs = <<>> THEN pending
    ELSE RemoveAll(IF InSeq(Head(txs), pending)
                   THEN RemoveFirst(pending, Head(txs)) ELSE pending,
                   Tail(txs))

\* the validator bookkeeping of add_block, for the fields modelled
UpdateValidator(n, block) ==
    IF block.validator \in DOMAIN n.validators
    THEN put_validator(
           [n EXCEPT !.validators[block.validator].blocks_validated = @ + 1,
                     !.validators[block.validator].txs_processed =
                         @ + Len(block.transactions)],
           block.validator)
    ELSE n

\* the append with the reward paid only to a registered validator
AppendBlockRegisteredOnly(n1, block) ==
    Only({Only({IF n3.exc THEN n3 ELSE put_block(n3, block)
                : n3 \in {IF n2.exc THEN n2 ELSE UpdateValidator(n2, block)}})
          : n2 \in {IF block.validator \in DOMAIN n1.validators
                    THEN update_balance([n1 EXCEPT !.chain = Append(@, block)],
                                        block.validator, block_reward)
                    ELSE [n1 EXCEPT !.chain = Append(@, block)]}})

\* add_block from chain.append on: the append, the reward (n2), the
\* validator bookkeeping (n3), put_block
AppendBlock(n1, block) ==
    Only({Only({IF n3.exc THEN n3 ELSE put_block(n3, block)
                : n3 \in {IF n2.exc THEN n2 ELSE UpdateValidator(n2, block)}})
          : n2 \in {update_balance([n1 EXCEPT !.chain = Append(@, block)],
                                   block.validator, block_reward)}})

\* LahkaBlockchain.add_block.  aliased: the block's transaction objects are
\* the objects in the mempool (the block comes from create_block).
\* Returns ok (the value returned), the node after (node.exc: the call
\* raised) and the log of the transactions processed.
add_block(n, block, aliased, new_addresses) ==
    IF ~validate_block(n, block)
    THEN [ok |-> FALSE, node |-> n, txlog |-> <<>>]
    ELSE Only({Only({[ok |-> ~n4.exc, node |-> n4, txlog |-> p.txlog]
                     : n4 \in {AppendBlock(
                                 [p.node EXCEPT
                                    !.pending_transactions =
                                       RemoveAll(
                                         IF aliased
                                         THEN p.txs \o SubSeq(@,
                                                Len(block.transactions) + 1, Len(@))
                                         ELSE @,
                                         p.txs)],
                                 [block EXCEPT !.transactions = p.txs])}})
               : p \in {ProcessAll(n, block.transactions, new_addresses)}})

\* LahkaBlockchain.create_genesis_block
create_genesis_block(n) ==
    Only({create_account(n1, "genesis", GENESIS_SUPPLY)
          : n1 \in {Only({put_block([n EXCEPT !.chain = Append(@, genesis_block)],
                                    genesis_block)
                          : genesis_block \in {Block(0, GENESIS_TIMESTAMP, <<>>,
                                                  <<"0">>, "genesis", <<"">>)}})}})

----------------------------------------------------------------------------
(* Validators, mining, start-up *)

\* register_validator that adds the validator whether or not the STAKE
\* transaction was admitted
register_validator_adds_anyway(n, address, stake_amount) ==
    LET gas_limit == 10
        total_required == stake_amount + gas_limit * Unit
        refuse == [ok |-> FALSE, node |-> n]
    IN  IF address = "" \/ (address # "genesis" /\ ~is_valid_address(address))
        THEN refuse
        ELSE IF address \in DOMAIN n.validators THEN refuse
        ELSE IF stake_amount < minimum_stake THEN refuse
        ELSE IF get_balance(n, address) < total_required THEN refuse
        ELSE IF address \notin DOMAIN n.accounts THEN refuse
        ELSE Only({[ok |-> r.ok,
                    node |-> [r.node EXCEPT !.validators = Put(@, address,
                                Validator(address, stake_amount))]]
                   : r \in {Only({add_transaction(n, stake_tx)
                                  : stake_tx \in {Transaction(address, "stake_pool",
                                       stake_amount, "stake", NoData, gas_limit, 1,
                                       n.accounts[address].nonce)}})}})

\* LahkaBlockchain.register_validator: the value returned and the node after
register_validator(n, address, stake_amount) ==
    LET gas_limit == 10
        total_required == stake_amount + gas_limit * Unit   \* gas_price = 1.0
        refuse == [ok |-> FALSE, node |-> n]
    IN  IF address = "" \/ (address # "genesis" /\ ~is_valid_address(address))
        THEN refuse
        ELSE IF address \in DOMAIN n.validators THEN refuse
        ELSE IF stake_amount < minimum_stake THEN refuse
        ELSE IF get_balance(n, address) < total_required THEN refuse
        ELSE IF address \notin DOMAIN n.accounts THEN refuse
        ELSE Only({IF r.ok
                   THEN [ok |-> TRUE,
                         node |-> [r.node EXCEPT !.validators = Put(@, address,
                                     Validator(address, stake_amount))]]
                   ELSE r
                   : r \in {Only({add_transaction(n, stake_tx)
                                  : stake_tx \in {Transaction(address, "stake_pool",
                                       stake_amount, "stake", NoData, gas_limit, 1,
                                       n.accounts[address].nonce)}})}})

None == "None"

\* the validators select_validator draws among
ActiveValidators(n) == {a \in DOMAIN n.validators : n.validators[a].is_active}

\* the orders a dict may list the addresses S in
Orders(S) ==
    {o \in [1..Cardinality(S) -> S] :
        \A i, j \in 1..Cardinality(S) : i # j => o[i] # o[j]}

RECURSIVE SumOver(_, _)
\* sum(weight[a] for a in order)
SumOver(order, weight) ==
    IF order = <<>> THEN 0
    ELSE weight[Head(order)] + SumOver(Tail(order), weight)

RECURSIVE WeightedPick(_, _, _, _)
\* the loop `current_weight += w; if random_value <= current_weight: return`
\* of select_validator; None when the loop ends without a return
WeightedPick(order, weight, random_value, current_weight) ==
    IF order = <<>> THEN None
    ELSE IF random_value <= current_weight + weight[Head(order)]
    THEN Head(order)
    ELSE WeightedPick(Tail(order), weight, random_value,
                      current_weight + weight[Head(order)])

SelectValidatorNoFallback(n, order, score, random_value) ==
    IF DOMAIN n.validators = {} THEN None
    ELSE IF order = <<>> THEN None
    ELSE IF SumOver(order, score) <= 0 THEN None
    ELSE Only({IF pick # None THEN pick ELSE order[1]
               : pick \in {WeightedPick(order, score, random_value, 0)}})

\* LahkaBlockchain.select_validator, for the order the active validators
\* are listed in, the PoCS score computed for each (a float >= 0, here a
\* small integer) and the value random.uniform returns (a fraction of the
\* total, here in whole weights)
select_validator(n, order, score, random_value) ==
    IF DOMAIN n.validators = {} THEN None
    ELSE IF order = <<>> THEN None
    ELSE IF SumOver(order, score) <= 0
    THEN LET stake == [a \in DOMAIN n.validators |-> n.validators[a].stake]
         IN  IF SumOver(order, stake) <= 0 THEN order[1]
             ELSE Only({IF pick # None THEN pick ELSE order[1]
                        : pick \in {WeightedPick(order, stake,
                                       Min(random_value * minimum_stake,
                                           SumOver(order, stake)), 0)}})
    ELSE Only({IF pick # None THEN pick ELSE order[1]
               : pick \in {WeightedPick(order, score,
                              Min(random_value, SumOver(order, score)), 0)}})

MaxScore == 1       \* the PoCS scores drawn are 0..MaxScore

\* the validator chosen by mine_block: "genesis" for the first block after
\* genesis when no validator exists and whenever select_validator has none
Proposer(n, order, score, random_value) ==
    IF Len(n.chain) = 1 /\ DOMAIN n.validators = {} THEN "genesis"
    ELSE Only({IF validator = None THEN "genesis" ELSE validator
               : validator \in {select_validator(n, order, score, random_value)}})

\* the addresses mine_block may propose as, over every order, score and
\* random draw
ProposerChoices(n) ==
    {Proposer(n, order, score, random_value) :
        order \in Orders(ActiveValidators(n)),
        score \in [ActiveValidators(n) -> 0..MaxScore],
        random_value \in 0..(MaxScore * Cardinality(ActiveValidators(n)))}

\* LahkaBlockchain.mine_block, for the proposer drawn and the clock read
mine_block(n, validator, timestamp, new_addresses) ==
    IF n.pending_transactions = <<>>
    THEN [ok |-> FALSE, node |-> n, txlog |-> <<>>]
    ELSE Only({add_block(n, block, TRUE, new_addresses)
               : block \in {create_block(n, validator, timestamp)}})

EmptyStore == [block |-> <<>>, account |-> <<>>, validator |-> <<>>,
               contract |-> <<>>]

\* the fields LahkaBlockchain.__init__ sets before it loads the store
NewNode(db) ==
    [chain |-> <<>>, pending_transactions |-> <<>>, validators |-> <<>>,
     accounts |-> <<>>, contracts |-> <<>>, processed_tx_hashes |-> {},
     store |-> db, writes |-> <<>>, ublog |-> <<>>, exc |-> FALSE]

\* Block(..., transactions=[Transaction(**tx) ...], hash=...) of a stored
\* block: the stored hashes are kept, transaction_type stays a string
Block_from_dict(d) ==
    [index |-> d.index, timestamp |-> d.timestamp,
     transactions |-> [i \in 1..Len(d.transactions) |-> d.transactions[i]],
     previous_hash |-> d.previous_hash, validator |-> d.validator,
     state_root |-> d.state_root, nonce |-> d.nonce, hash |-> d.hash]

RECURSIVE LoadBlocks(_, _)
\* the while loop of _load_chain_from_db: blocks 0, 1, ... up to the first gap
LoadBlocks(blocks, i) ==
    IF i \in DOMAIN blocks
    THEN <<Block_from_dict(blocks[i])>> \o LoadBlocks(blocks, i + 1)
    ELSE <<>>

\* LahkaBlockchain._load_chain_from_db
load_chain_from_db(n) ==
    [n EXCEPT !.chain = LoadBlocks(n.store.block, 0),
              !.accounts = [a \in DOMAIN n.store.account |-> n.store.account[a]],
              !.validators = [v \in DOMAIN n.store.validator |->
                                 n.store.validator[v]],
              !.contracts = [c \in DOMAIN n.store.contract |->
                                n.store.contract[c]]]

\* LahkaBlockchain.__init__ on the store db
StartNode(db) ==
    Only({IF n.chain = <<>> THEN create_genesis_block(n) ELSE n
          : n \in {Only({load_chain_from_db(n0) : n0 \in {NewNode(db)}})}})

----------------------------------------------------------------------------
(* The inputs the environment may submit *)

DefaultGas == 21000                      \* Transaction.gas_limit default
BigAmount == (GENESIS_SUPPLY \div 2) - 20 * Unit
SmallAmount == 100 * Unit

DeployData == ("contract_code" :> "code")
              @@ ("initial_state" :> (("counter" :> IntVal(0))
                                      @@ ("unset" :> NoneVal)))
CallData(contract_address, function_name) ==
    ("contract_address" :> contract_address)
    @@ ("function_name" :> function_name)
    @@ ("args" :> <<"counter", IntVal(5)>>)

GenesisNonces == 0..2

TxUniverse ==
    {Transaction("genesis", "A", BigAmount, "transfer", NoData, DefaultGas, 1, k)
        : k \in GenesisNonces}
    \cup {Transaction("genesis", "A", SmallAmount, "transfer", NoData,
                      DefaultGas, 1, 0)}
    \cup {Transaction("A", "B", SmallAmount, "transfer", NoData, DefaultGas, 1, k)
            : k \in 0..1}
    \cup {Transaction("A", "stake_pool", minimum_stake, "stake", NoData,
                      DefaultGas, 1, 0)}
    \cup {Transaction("genesis", "", 0, "contract_deploy", DeployData,
                      DefaultGas, 1, 0)}
    \cup {Transaction("genesis", "", 0, "contract_call",
                      CallData(ContractAddrPool[1], "set_state"), DefaultGas, 1, 1)}
    \cup {Transaction("genesis", "", 0, "contract_call",
                      CallData(ContractAddrPool[1], "withdraw"), DefaultGas, 1, 2)}
    \cup {Transaction("", "A", SmallAmount, "transfer", NoData, DefaultGas, 1, 0),
          Transaction("zz", "A", SmallAmount, "transfer", NoData, DefaultGas, 1, 0),
          Transaction("genesis", "zz", SmallAmount, "transfer", NoData,
                      DefaultGas, 1, 0),
          Transaction("genesis", "stake_pool", SmallAmount, "transfer", NoData,
                      DefaultGas, 1, 0),
          Transaction("genesis", "A", SmallAmount, "transfer", NoData, 0, 1, 0),
          Transaction("genesis", "A", 0 - SmallAmount, "transfer", NoData,
                      DefaultGas, 1, 0),
          Transaction("A", "stake_pool", minimum_stake - 1, "stake", NoData,
                      DefaultGas, 1, 0)}

\* the transaction messages a peer may send: a transaction as its sender
\* serialized it, the same fields under another hash, a message without a
\* hash, and one whose transaction_type is no member of the enum
TxMessages ==
    UNION {{Transaction_to_dict(t),
            [Transaction_to_dict(t) EXCEPT !.hash = <<"other">>],
            [Transaction_to_dict(t) EXCEPT !.hash = <<"none">>],
            [Transaction_to_dict(t) EXCEPT !.transaction_type = Str("bogus")]}
           : t \in {Transaction("genesis", "A", BigAmount, "transfer", NoData,
                                DefaultGas, 1, 0)}}

\* the transactions a peer may put into a block it sends
PeerTxs ==
    {Transaction("genesis", "A", BigAmount, "transfer", NoData, DefaultGas, 1, k)
        : k \in 0..1}
    \cup {Transaction("genesis", "", 0, "contract_call",
                      CallData(ContractAddrPool[1], "set_state"), DefaultGas, 1, 1),
          Transaction("genesis", "", 0, "contract_deploy", DeployData,
                      DefaultGas, 1, 0)}

----------------------------------------------------------------------------
(* The state machine *)

Node == [chain |-> chain, pending_transactions |-> pending_transactions,
         validators |-> validators, accounts |-> accounts,
         contracts |-> contracts, processed_tx_hashes |-> processed_tx_hashes,
         store |-> store, writes |-> <<>>, ublog |-> <<>>, exc |-> FALSE]

SetNode(n) ==
    /\ chain' = n.chain
    /\ pending_transactions' = n.pending_transactions
    /\ validators' = n.validators
    /\ accounts' = n.accounts
    /\ contracts' = n.contracts
    /\ processed_tx_hashes' = n.processed_tx_hashes
    /\ store' = n.store

\* the hashes of the transactions in the blocks of a chain
ChainTxHashes(c) ==
    UNION {{c[i].transactions[j].hash : j \in 1..Len(c[i].transactions)}
              : i \in 1..Len(c)}

Observed(op, ok, n, txlog, tx_hash) ==
    [op |-> op, ok |-> ok, raised |-> n.exc, txlog |-> txlog,
     ublog |-> n.ublog, start |-> accounts,
     replay |-> tx_hash \in ChainTxHashes(chain)]

\* the node record without what one call leaves behind in it
Settled(n) == [n EXCEPT !.writes = <<>>, !.ublog = <<>>, !.exc = FALSE]

\* a second node, just constructed, and no message on the connection
P2PInit ==
    [peer |-> Settled(StartNode(EmptyStore)), to_peer |-> <<>>, to_node |-> <<>>,
     ahead |-> {}]

ThreadNames == {"mining", "p2p"}

ThreadsInit == [t \in ThreadNames |-> [pc |-> "idle", block |-> <<>>]]

Init ==
    \E n \in {StartNode(EmptyStore)} :
        /\ chain = n.chain
        /\ pending_transactions = n.pending_transactions
        /\ validators = n.validators
        /\ accounts = n.accounts
        /\ contracts = n.contracts
        /\ processed_tx_hashes = n.processed_tx_hashes
        /\ store = n.store
        /\ now = StartTime
        /\ stops = 0
        /\ p2p = P2PInit
        /\ threads = ThreadsInit
        /\ last = [op |-> "init", ok |-> TRUE, raised |-> FALSE,
                   txlog |-> <<>>, ublog |-> <<>>, start |-> <<>>,
                   replay |-> FALSE]

\* deployments the model still has an address for
DeploysPending(pending) ==
    Cardinality({i \in 1..Len(pending) : IsDeploy(pending[i])})

CanAdmit(tx) ==
    /\ Len(pending_transactions) < MaxPending
    /\ IsDeploy(tx) =>
         Cardinality(DOMAIN contracts) + DeploysPending(pending_transactions)
            < MaxContracts

\* one address per deployment in the block, none of them in use
NewAddressChoices(txs) ==
    LET free == ContractAddrs \ DOMAIN contracts
        k == DeploysPending(txs)
    IN  {q \in [1..k -> free] : \A i, j \in 1..k : i # j => q[i] # q[j]}

AddTransaction ==
    \E tx \in TxUniverse :
        /\ CanAdmit(tx)
        /\ \E r \in {add_transaction(Node, tx)} :
               /\ SetNode(r.node)
               /\ last' = Observed("add_transaction", r.ok, r.node, <<>>, tx.hash)
        /\ UNCHANGED <<now, stops, p2p, threads>>

RegisterValidator ==
    \E address \in {"A", "zz"}, stake_amount \in {minimum_stake, minimum_stake - 1} :
        /\ Len(pending_transactions) < MaxPending
        /\ \E r \in {register_validator(Node, address, stake_amount)} :
               /\ SetNode(r.node)
               /\ last' = Observed("register_validator", r.ok, r.node, <<>>,
                                   <<"none">>)
        /\ UNCHANGED <<now, stops, p2p, threads>>

\* a 'transaction' message arrives from a peer
IncomingTransaction ==
    \E tx_data \in TxMessages :
        /\ Len(pending_transactions) < MaxPending
        /\ \E r \in {handle_incoming_transaction(Node, tx_data)} :
               /\ SetNode(r.node)
               /\ last' = Observed("incoming_transaction", r.ok, r.node, <<>>,
                                   tx_data.hash)
        /\ UNCHANGED <<now, stops, p2p, threads>>

MineBlock ==
    /\ now < StartTime + MaxChain
    /\ Len(pending_transactions) <= MaxPending
    /\ \E validator \in ProposerChoices(Node),
          q \in NewAddressChoices(pending_transactions) :
        \E r \in {mine_block(Node, validator, now, q)} :
            /\ Len(r.node.chain) <= MaxChain
            /\ SetNode(r.node)
            /\ last' = Observed("mine_block", r.ok, r.node, r.txlog, <<"none">>)
            /\ now' = IF r.node.chain # chain THEN now + 1 ELSE now
            /\ UNCHANGED <<stops, p2p, threads>>

\* the blocks a peer may send: a block built on this tip by a peer in the
\* same state, that block with one field wrong, and another block for the
\* height of this tip
PeerBlocks ==
    UNION {{Block(Len(chain), now, txs, tip, validator, root) :
               txs \in {<<>>} \cup {<<tx>> : tx \in
                           {t \in PeerTxs : \/ InSeq(t, pending_transactions)
                                            \/ add_transaction(Node, t).ok}},
               validator \in {"genesis"} \cup DOMAIN validators}
           \cup {Block(Len(chain) + 1, now, <<>>, tip, "genesis", root),
                 Block(Len(chain) - 1, now, <<>>, tip, "genesis", root),
                 Block(Len(chain), now, <<>>, chain[1].hash, "genesis", root),
                 Block(Len(chain), now, <<>>, chain[1].previous_hash, "genesis",
                       root),
                 Block(Len(chain) - 1, now, <<>>,
                       chain[Len(chain)].previous_hash, "genesis", root),
                 Block(Len(chain), now, <<>>, tip, "B", root),
                 [Block(Len(chain), now, <<>>, tip, "genesis", root)
                     EXCEPT !.hash = <<"forged">>]}
           : tip \in {get_latest_block(Node).hash},
             root \in {calculate_state_root(Node)}}

AddBlock ==
    /\ now < StartTime + MaxChain
    /\ Len(pending_transactions) <= MaxPending
    /\ \E block \in PeerBlocks :
        \E q \in NewAddressChoices(block.transactions) :
        \E r \in {add_block(Node, block, FALSE, q)} :
            /\ Len(r.node.chain) <= MaxChain
            /\ SetNode(r.node)
            /\ last' = Observed("add_block", r.ok, r.node, r.txlog, <<"none">>)
            /\ now' = IF r.node.chain # chain THEN now + 1 ELSE now
            /\ UNCHANGED <<stops, p2p, threads>>

Next ==
    \/ AddTransaction
    \/ RegisterValidator
    \/ IncomingTransaction
    \/ MineBlock
    \/ AddBlock

Spec == Init /\ [][Next]_vars

----------------------------------------------------------------------------
(* Stopping and starting the node on its store *)

\* the node is closed and LahkaBlockchain(db_path) runs again on the store
Restart ==
    /\ stops < MaxStops
    /\ \E n \in {StartNode(store)} :
           /\ SetNode(n)
           /\ last' = Observed("restart", TRUE, n, <<>>, <<"none">>)
           /\ now' = now
           /\ stops' = stops + 1
           /\ UNCHANGED <<p2p, threads>>

NextRestart == Next \/ Restart

SpecRestart == Init /\ [][NextRestart]_vars

RECURSIVE ApplyWrites(_, _)
\* the store after the writes ws, made in that order
ApplyWrites(db, ws) ==
    IF ws = <<>> THEN db
    ELSE ApplyWrites([db EXCEPT ![Head(ws)[1]] = Put(@, Head(ws)[2], Head(ws)[3])],
                     Tail(ws))

\* the mine_block calls the node may be running
MineBlockRuns ==
    {mine_block(Node, validator, now, q) :
        validator \in ProposerChoices(Node),
        q \in NewAddressChoices(pending_transactions)}

\* the process stops inside add_block after the k-th store write of the
\* call and before the next one; a new node then starts on the store
Crash ==
    /\ stops < MaxStops
    /\ now < StartTime + MaxChain
    /\ \E r \in MineBlockRuns :
         \E k \in 1..(Len(r.node.writes) - 1) :
            \E n \in {StartNode(ApplyWrites(store, SubSeq(r.node.writes, 1, k)))} :
                /\ Len(n.chain) <= MaxChain
                /\ SetNode(n)
                /\ last' = Observed("crash", TRUE, n, <<>>, <<"none">>)
                /\ now' = now
                /\ stops' = stops + 1
                /\ UNCHANGED <<p2p, threads>>

\* a node that mines its own blocks and may stop while doing so
NextCrash == AddTransaction \/ RegisterValidator \/ MineBlock \/ Crash

SpecCrash == Init /\ [][NextCrash]_vars


----------------------------------------------------------------------------
(* A node that funds an account, registers it as a validator and mines, and
   that receives no block from a peer *)

StakingTxs ==
    {Transaction("genesis", "A", BigAmount, "transfer", NoData, DefaultGas, 1, 0),
     Transaction("A", "stake_pool", minimum_stake, "stake", NoData, DefaultGas,
                 1, 0),
     Transaction("A", "B", SmallAmount, "transfer", NoData, DefaultGas, 1, 0),
     Transaction("A", "B", SmallAmount, "transfer", NoData, DefaultGas, 1, 1),
     Transaction("genesis", "stake_pool", SmallAmount, "transfer", NoData,
                 DefaultGas, 1, 0),
     Transaction("genesis", "stake_pool", SmallAmount, "contract_call",
                 CallData(ContractAddrPool[1], "set_state"), DefaultGas, 1, 0),
     Transaction("stake_pool", "A", Unit, "transfer", NoData, 1000, 1, 0),
     Transaction("stake_pool", "stake_pool", Unit, "stake", NoData, 1000, 1, 0)}

StakingSubmit ==
    \E tx \in StakingTxs :
        /\ Len(pending_transactions) < MaxPending
        /\ \E r \in {add_transaction(Node, tx)} :
               /\ SetNode(r.node)
               /\ last' = ("tx" :> tx)
                           @@ Observed("add_transaction", r.ok, r.node, <<>>,
                                       tx.hash)
        /\ UNCHANGED <<now, stops, p2p, threads>>

StakingRegister ==
    \E address \in {"A", "B", "genesis"} :
        /\ Len(pending_transactions) < MaxPending
        /\ \E r \in {register_validator(Node, address, minimum_stake)} :
               /\ SetNode(r.node)
               /\ last' = Observed("register_validator", r.ok, r.node, <<>>,
                                   <<"none">>)
        /\ UNCHANGED <<now, stops, p2p, threads>>

StakingMine ==
    /\ now < StartTime + MaxStakingChain
    /\ \E validator \in ProposerChoices(Node) :
        \E r \in {mine_block(Node, validator, now, <<>>)} :
            /\ Len(r.node.chain) <= MaxStakingChain
            /\ SetNode(r.node)
            /\ last' = Observed("mine_block", r.ok, r.node, r.txlog, <<"none">>)
            /\ now' = IF r.node.chain # chain THEN now + 1 ELSE now
            /\ UNCHANGED <<stops, p2p, threads>>

NextStaking == StakingSubmit \/ StakingRegister \/ StakingMine

SpecStaking == Init /\ [][NextStaking]_vars

----------------------------------------------------------------------------
(* A node whose mempool is nearly full, next to the fresh node.  Blocks are
   mined and received on mempools of up to MaxPending entries only. *)

\* the i-th of the transfers that fill the mempool
PoolTx(i) ==
    Transaction("genesis", "A", Unit, "transfer", NoData, DefaultGas, 1, i - 1)

\* the node after add_transaction has accepted PoolTx(1), ..., PoolTx(k) on
\* a fresh node (k >= 2): each call found a nonce above the one of the
\* genesis account, wrote it to the account and stored the account
FilledNode(k) ==
    [Settled(put_account([StartNode(EmptyStore) EXCEPT
                             !.accounts["genesis"].nonce = k - 1], "genesis"))
        EXCEPT !.pending_transactions = [i \in 1..k |-> PoolTx(i)]]

InitFilled ==
    \E n \in {FilledNode(MEMPOOL_CAP - 2)} :
        /\ chain = n.chain
        /\ pending_transactions = n.pending_transactions
        /\ validators = n.validators
        /\ accounts = n.accounts
        /\ contracts = n.contracts
        /\ processed_tx_hashes = n.processed_tx_hashes
        /\ store = n.store
        /\ now = StartTime
        /\ stops = 0
        /\ p2p = P2PInit
        /\ threads = ThreadsInit
        /\ last = [op |-> "init", ok |-> TRUE, raised |-> FALSE,
                   txlog |-> <<>>, ublog |-> <<>>, start |-> <<>>,
                   replay |-> FALSE]

\* three transfers the mempool does not hold, one with the sender and nonce
\* of a pending one, and a pending one
FilledTxs ==
    {PoolTx(MEMPOOL_CAP - 1), PoolTx(MEMPOOL_CAP), PoolTx(MEMPOOL_CAP + 1),
     Transaction("genesis", "A", SmallAmount, "transfer", NoData, DefaultGas,
                 1, MEMPOOL_CAP - 3),
     PoolTx(1)}

\* add_transaction on the nearly full mempool
FilledSubmit ==
    \E tx \in FilledTxs :
        /\ Len(pending_transactions) >= MEMPOOL_CAP - 2
        /\ \E r \in {add_transaction(Node, tx)} :
               /\ SetNode(r.node)
               /\ last' = ("tx" :> tx)
                           @@ Observed("add_transaction", r.ok, r.node, <<>>,
                                       tx.hash)
        /\ UNCHANGED <<now, stops, p2p, threads>>

InitMempool == Init \/ InitFilled

NextMempool == Next \/ FilledSubmit

SpecMempool == InitMempool /\ [][NextMempool]_vars

----------------------------------------------------------------------------
(* Two nodes and the block messages between them.  The node of the variables
   above admits transactions and mines; it broadcasts the new tip when the
   block was mined through the RPC and the peer is connected.  The peer
   p2p.peer handles the messages, and mines blocks of its own in its mining
   loop, which broadcasts nothing. *)

MaxSyncChain == 3   \* blocks in the chain of either node, genesis included

\* Block(...) in handle_incoming_block: every transaction_type becomes the
\* enum, the hashes of the message are kept
Block_from_message(block_data) ==
    [Block_from_dict(block_data) EXCEPT
        !.transactions = [i \in 1..Len(block_data.transactions) |->
                             Transaction_from_dict(block_data.transactions[i])]]

\* LahkaBlockchain.request_missing_blocks: the messages sent to the peer,
\* none when no block of the local chain has the hash
request_missing_blocks(n, target_hash) ==
    LET found == {i \in 1..Len(n.chain) : n.chain[i].hash = target_hash}
    IN  IF found = {} THEN <<>>
        ELSE <<[type |-> "request_block",
                payload |-> [index |-> CHOOSE i \in found :
                                           \A j \in found : i <= j]]>>

\* a handler without the test for a block that is already there
handle_incoming_block_unchecked(n, block_data, new_addresses) ==
    Only({IF block.previous_hash = get_latest_block(n).hash
          THEN IF validate_block(n, block)
               THEN [node |-> Settled(add_block(n, block, FALSE,
                                          new_addresses).node),
                     sent |-> <<>>]
               ELSE [node |-> n, sent |-> <<>>]
          ELSE [node |-> n,
                sent |-> request_missing_blocks(n, block.previous_hash)]
          : block \in {Block_from_message(block_data)}})

\* LahkaBlockchain.handle_incoming_block: the node after the message and the
\* messages sent back; an exception inside is caught and printed
handle_incoming_block(n, block_data, new_addresses) ==
    IF \/ block_data.index >= Len(n.chain)
       \/ n.chain[block_data.index + 1].hash # block_data.hash
    THEN IF \E i \in 1..Len(block_data.transactions) :
                block_data.transactions[i].transaction_type.value
                    \notin TransactionTypes
         THEN [node |-> n, sent |-> <<>>]            \* ValueError, caught
         ELSE Only({IF block.previous_hash = get_latest_block(n).hash
                    THEN IF validate_block(n, block)
                         THEN [node |-> Settled(add_block(n, block, FALSE,
                                                    new_addresses).node),
                               sent |-> <<>>]
                         ELSE [node |-> n, sent |-> <<>>]
                    ELSE [node |-> n,
                          sent |-> request_missing_blocks(n, block.previous_hash)]
                    : block \in {Block_from_message(block_data)}})
    ELSE [node |-> n, sent |-> <<>>]

\* LahkaBlockchain.handle_block_response
handle_block_response(n, block_data, new_addresses) ==
    handle_incoming_block(n, block_data, new_addresses)

\* self.chain[block_index]: a negative index counts from the end of the list
ListIndex(list, index) == IF index < 0 THEN Len(list) + index + 1 ELSE index + 1

\* LahkaBlockchain.handle_request_block: the messages sent back; without an
\* index request_data.get('index') is None, and the IndexError of an index
\* below -len(self.chain) is caught and printed
handle_request_block(n, request_data) ==
    IF "index" \in DOMAIN request_data /\ request_data.index < Len(n.chain)
    THEN IF ListIndex(n.chain, request_data.index) \in DOMAIN n.chain
         THEN <<[type |-> "block_response",
                 payload |-> Block_to_dict(
                                n.chain[ListIndex(n.chain, request_data.index)])]>>
         ELSE <<>>
    ELSE <<>>

\* LahkaBlockchain.broadcast_block
BlockMessage(block) == [type |-> "block", payload |-> Block_to_dict(block)]

SyncTxs ==
    {Transaction("genesis", "A", BigAmount, "transfer", NoData, DefaultGas, 1, 0),
     Transaction("genesis", "A", SmallAmount, "transfer", NoData, DefaultGas, 1, 1),
     Transaction("genesis", "", 0, "contract_deploy", DeployData, DefaultGas, 1, 0)}

PeerSyncTxs ==
    {Transaction("genesis", "B", SmallAmount, "transfer", NoData, DefaultGas, 1, 0)}

\* one address per deployment among txs, none of them in use at node n
FreeAddressChoices(n, txs) ==
    LET free == ContractAddrs \ DOMAIN n.contracts
        k == DeploysPending(txs)
    IN  {q \in [1..k -> free] : \A i, j \in 1..k : i # j => q[i] # q[j]}

SyncSubmit ==
    \E tx \in SyncTxs :
        /\ CanAdmit(tx)
        /\ \E r \in {add_transaction(Node, tx)} :
               /\ SetNode(r.node)
               /\ last' = Observed("add_transaction", r.ok, r.node, <<>>, tx.hash)
        /\ UNCHANGED <<now, stops, p2p, threads>>

\* mine_block at this node; connected: the call came through the RPC and
\* the peer is connected, so that the new tip is broadcast
SyncMine ==
    /\ now < StartTime + MaxSyncChain
    /\ \E validator \in ProposerChoices(Node),
          q \in NewAddressChoices(pending_transactions),
          connected \in BOOLEAN :
        \E r \in {mine_block(Node, validator, now, q)} :
            /\ Len(r.node.chain) <= MaxSyncChain
            /\ SetNode(r.node)
            /\ p2p' = IF r.ok /\ connected
                      THEN [p2p EXCEPT !.to_peer =
                               Append(@, BlockMessage(get_latest_block(r.node)))]
                      ELSE p2p
            /\ last' = ("validators" :> validators)
                        @@ Observed("mine_block", r.ok, r.node, r.txlog,
                                    <<"none">>)
            /\ now' = IF r.node.chain # chain THEN now + 1 ELSE now
            /\ UNCHANGED <<stops, threads>>

PeerObserved(op, ok) ==
    [op |-> op, ok |-> ok, raised |-> FALSE, txlog |-> <<>>, ublog |-> <<>>,
     start |-> p2p.peer.accounts, replay |-> FALSE]

PeerSubmit ==
    \E tx \in PeerSyncTxs :
        /\ Len(p2p.peer.pending_transactions) < MaxPending
        /\ \E r \in {add_transaction(p2p.peer, tx)} :
               /\ p2p' = [p2p EXCEPT !.peer = Settled(r.node)]
               /\ last' = PeerObserved("peer_add_transaction", r.ok)
        /\ UNCHANGED <<chain, pending_transactions, validators, accounts,
                       contracts, processed_tx_hashes, store, now, stops,
                       threads>>

\* the mining loop of the peer
PeerMine ==
    /\ now < StartTime + MaxSyncChain
    /\ \E validator \in ProposerChoices(p2p.peer) :
        \E r \in {mine_block(p2p.peer, validator, now, <<>>)} :
            /\ r.ok
            /\ Len(r.node.chain) <= MaxSyncChain
            /\ p2p' = [p2p EXCEPT !.peer = Settled(r.node)]
            /\ last' = PeerObserved("peer_mine_block", r.ok)
            /\ now' = now + 1
    /\ UNCHANGED <<chain, pending_transactions, validators, accounts,
                   contracts, processed_tx_hashes, store, stops, threads>>

\* the message is a block whose hash is the digest of its fields and whose
\* height is two or more above the tip of node n
IsAhead(n, block_data) ==
    /\ block_data.index >= Len(n.chain) + 1
    /\ block_data.hash = Block_calculate_hash(Block_from_message(block_data))

\* the peer after a handler ran on the first message of the connection
PeerHandled(op, block_data, r) ==
    /\ p2p' = [peer |-> r.node,
               to_peer |-> Tail(p2p.to_peer),
               to_node |-> p2p.to_node \o r.sent,
               ahead |-> IF IsAhead(p2p.peer, block_data)
                         THEN p2p.ahead \cup {block_data.hash}
                         ELSE p2p.ahead]
    /\ last' = PeerObserved(op, r.node.chain # p2p.peer.chain)
    /\ UNCHANGED <<chain, pending_transactions, validators, accounts,
                   contracts, processed_tx_hashes, store, now, stops, threads>>

\* a 'block' message reaches the peer
HandleIncomingBlock ==
    /\ p2p.to_peer # <<>>
    /\ Head(p2p.to_peer).type = "block"
    /\ \E block_data \in {Head(p2p.to_peer).payload} :
        \E q \in FreeAddressChoices(p2p.peer, block_data.transactions) :
            PeerHandled("handle_incoming_block", block_data,
                        handle_incoming_block(p2p.peer, block_data, q))

\* a 'block_response' message reaches the peer
HandleBlockResponse ==
    /\ p2p.to_peer # <<>>
    /\ Head(p2p.to_peer).type = "block_response"
    /\ \E block_data \in {Head(p2p.to_peer).payload} :
        \E q \in FreeAddressChoices(p2p.peer, block_data.transactions) :
            PeerHandled("handle_block_response", block_data,
                        handle_block_response(p2p.peer, block_data, q))

\* a 'request_block' message of the peer reaches this node
HandleRequestBlock ==
    /\ p2p.to_node # <<>>
    /\ p2p' = [p2p EXCEPT
                 !.to_node = Tail(@),
                 !.to_peer = @ \o handle_request_block(Node,
                                         Head(p2p.to_node).payload)]
    /\ last' = Observed("handle_request_block", TRUE, Node, <<>>, <<"none">>)
    /\ UNCHANGED <<chain, pending_transactions, validators, accounts,
                   contracts, processed_tx_hashes, store, now, stops, threads>>

NextSync ==
    \/ SyncSubmit
    \/ SyncMine
    \/ PeerSubmit
    \/ PeerMine
    \/ HandleIncomingBlock
    \/ HandleBlockResponse
    \/ HandleRequestBlock

SpecSync == Init /\ [][NextSync]_vars

\* every message on the connection is handled in the end
SpecSyncFair ==
    /\ SpecSync
    /\ WF_vars(HandleIncomingBlock)
    /\ WF_vars(HandleBlockResponse)
    /\ WF_vars(HandleRequestBlock)

----------------------------------------------------------------------------
(* One node and its threads.  The mining loop runs mine_block, the P2P
   handler runs handle_incoming_block and the RPC threads run add_transaction,
   all on the same LahkaBlockchain object, which has no lock.  A thread may
   be suspended between any two statements; here add_block is cut into three
   steps: validate_block, the two loops over the transactions, and the
   append with what follows it. *)

MaxThreadChain == 3     \* blocks in the chain, genesis included

ThreadTxs ==
    {Transaction("genesis", "A", SmallAmount, "transfer", NoData, DefaultGas,
                 1, k) : k \in 0..1}

\* the blocks a peer in the state of this node may send
ThreadPeerBlocks ==
    {Block(Len(chain), now, txs, get_latest_block(Node).hash, "genesis",
           calculate_state_root(Node))
        : txs \in {<<>>} \cup {<<tx>> : tx \in ThreadTxs}}

SetThread(t, pc, block) ==
    threads' = [threads EXCEPT ![t] = [pc |-> pc, block |-> block]]

\* an RPC thread runs add_transaction
ThreadSubmit ==
    \E tx \in ThreadTxs :
        /\ Len(pending_transactions) < MaxPending
        /\ \E r \in {add_transaction(Node, tx)} :
               /\ SetNode(r.node)
               /\ last' = Observed("add_transaction", r.ok, r.node, <<>>, tx.hash)
        /\ UNCHANGED <<now, stops, p2p, threads>>

\* the mining loop enters mine_block and runs it up to the call of add_block
MiningCreate ==
    /\ threads["mining"].pc = "idle"
    /\ now < StartTime + MaxThreadChain
    /\ Len(chain) < MaxThreadChain
    /\ pending_transactions # <<>>
    /\ \E validator \in ProposerChoices(Node) :
           SetThread("mining", "validate", create_block(Node, validator, now))
    /\ last' = Observed("create_block", TRUE, Node, <<>>, <<"none">>)
    /\ now' = now + 1
    /\ UNCHANGED <<chain, pending_transactions, validators, accounts,
                   contracts, processed_tx_hashes, store, stops, p2p>>

\* the P2P handler runs handle_incoming_block on a 'block' message up to
\* the call of add_block
P2PReceive ==
    /\ threads["p2p"].pc = "idle"
    /\ now < StartTime + MaxThreadChain
    /\ Len(chain) < MaxThreadChain
    /\ \E block_data \in {Block_to_dict(b) : b \in ThreadPeerBlocks} :
        \E block \in {Block_from_message(block_data)} :
           SetThread("p2p",
                     IF /\ block.previous_hash = get_latest_block(Node).hash
                        /\ validate_block(Node, block)
                     THEN "validate" ELSE "idle",
                     block)
    /\ last' = Observed("handle_incoming_block", TRUE, Node, <<>>, <<"none">>)
    /\ now' = now + 1
    /\ UNCHANGED <<chain, pending_transactions, validators, accounts,
                   contracts, processed_tx_hashes, store, stops, p2p>>

\* add_block, first statement: validate_block
ThreadValidate ==
    \E t \in ThreadNames :
        /\ threads[t].pc = "validate"
        /\ \E ok \in {validate_block(Node, threads[t].block)} :
               /\ SetThread(t, IF ok THEN "process" ELSE "idle",
                            threads[t].block)
               /\ last' = Observed("validate_block", ok, Node, <<>>, <<"none">>)
        /\ UNCHANGED <<chain, pending_transactions, validators, accounts,
                       contracts, processed_tx_hashes, store, now, stops, p2p>>

\* add_block, the loop that processes the transactions and the loop that
\* removes them from the mempool
ThreadProcess ==
    \E t \in ThreadNames :
        /\ threads[t].pc = "process"
        /\ \E p \in {ProcessAll(Node, threads[t].block.transactions, <<>>)} :
               /\ SetNode([p.node EXCEPT !.pending_transactions =
                                            RemoveAll(@, p.txs)])
               /\ SetThread(t, "append",
                            [threads[t].block EXCEPT !.transactions = p.txs])
               /\ last' = Observed("process_transactions", TRUE, p.node,
                                   p.txlog, <<"none">>)
        /\ UNCHANGED <<now, stops, p2p>>

\* add_block from chain.append to its return
ThreadAppend ==
    \E t \in ThreadNames :
        /\ threads[t].pc = "append"
        /\ \E n \in {AppendBlock(Node, threads[t].block)} :
               /\ SetNode(n)
               /\ SetThread(t, "idle", <<>>)
               /\ last' = Observed("append_block", ~n.exc, n, <<>>, <<"none">>)
        /\ UNCHANGED <<now, stops, p2p>>

NextThreads ==
    \/ ThreadSubmit
    \/ MiningCreate
    \/ P2PReceive
    \/ ThreadValidate
    \/ ThreadProcess
    \/ ThreadAppend

SpecThreads == Init /\ [][NextThreads]_vars

----------------------------------------------------------------------------
(* Penalties and rehabilitation of a validator.  The multiplier is counted in
   hundredths (PenaltyUnit); multiplier * 0.8 is rounded down to a hundredth.
   The scores that a penalty lowers are not modelled. *)

MaxPenalties == 9       \* entries in the penalty history of a validator
MaxWaits == 1           \* times the clock moves on by thirty days
MaxOverrides == 1       \* community overrides per validator
MaxCredits == 120       \* contribution credits a validator earns

ThirtyDays == 30 * 24 * 3600

\* hundredths per point of a score, a rating or a weight
ScoreUnit == 100

\* the fields of the Validator dataclass that the node-level model leaves
\* out, with their defaults for a validator constructed at time t; credits
\* and seconds are whole numbers, scores are counted in hundredths
PocsFields(t) ==
    [registered_at |-> t, last_activity |-> t, last_seen |-> t,
     contribution_score |-> 0, reliability_score |-> 100 * ScoreUnit,
     diversity_bonus |-> 0, total_uptime_seconds |-> 0,
     blocks_attempted |-> 0, blocks_successful |-> 0,
     peer_ratings |-> <<>>, average_peer_rating |-> 100 * ScoreUnit,
     reputation_score |-> 100 * ScoreUnit, last_peer_review |-> 0,
     contribution_credits |-> 0,
     cached_pocs_score |-> 0, last_score_calculation |-> 0,
     collaboration_score |-> 0, network_health_contribution |-> 0,
     dynamic_weight_adjustment |-> 1 * ScoreUnit]

\* the node whose validator at this address, constructed at time t by the
\* call that has just returned, carries all the fields of the dataclass
Scored(n, address, t) ==
    IF address \in DOMAIN n.validators
       /\ "registered_at" \notin DOMAIN n.validators[address]
    THEN [n EXCEPT !.validators[address] = @ @@ PocsFields(t)]
    ELSE n

score_cache_duration == 5

\* the PoCS formula of Validator.calculate_pocs_score at current_time, in
\* hundredths, every quotient rounded down
PocsScore(validator, current_time) ==
    LET seconds_inactive == current_time - validator.last_activity
        \* max(0.1, 1 - 0.001 * days_inactive) in thousandths, the days
        \* counted whole
        decay == Max(100, 1000 - seconds_inactive \div 86400)
        effective_stake == (validator.stake * decay) \div 1000
        stake_component ==
            (effective_stake * 25 * validator.dynamic_weight_adjustment)
               \div (100 * ScoreUnit)
        uptime_factor ==
            Min(ScoreUnit,
                (ScoreUnit * validator.total_uptime_seconds)
                   \div Max(1, current_time - validator.registered_at))
        block_success_rate ==
            (ScoreUnit * validator.blocks_successful)
               \div Max(1, validator.blocks_attempted)
        txs_factor == Min(ScoreUnit, validator.txs_processed)
        contribution_component ==
            ((validator.contribution_score * 3) \div 10
             + uptime_factor * 15 + block_success_rate * 15 + txs_factor * 15
             + validator.collaboration_score * 8
             + validator.network_health_contribution * 5) \div 4
        reliability_component == validator.reliability_score \div 4
        reputation_component == (validator.reputation_score * 15) \div 100
        diversity_component == validator.diversity_bonus \div 10
        recent_penalty ==
            IF validator.penalty_history = <<>> THEN 0
            ELSE validator.penalty_history[Len(validator.penalty_history)]
                    .severity
        penalty_component ==
            (validator.current_penalty_multiplier * recent_penalty) \div 10
    IN  Max(0, stake_component + contribution_component + reliability_component
               + reputation_component + diversity_component
               - penalty_component)

\* Validator.calculate_pocs_score: the validator after the call and the
\* score returned
calculate_pocs_score(validator, current_time, force_recalculate) ==
    IF ~force_recalculate
       /\ current_time - validator.last_score_calculation < score_cache_duration
    THEN [validator |-> validator, score |-> validator.cached_pocs_score]
    ELSE Only({[validator |-> [validator EXCEPT
                                 !.cached_pocs_score = total_score,
                                 !.last_score_calculation = current_time],
                score |-> total_score]
               : total_score \in {PocsScore(validator, current_time)}})

\* Validator.update_collaboration_score
update_collaboration_score(validator, score_increase) ==
    [validator EXCEPT
       !.collaboration_score = Min(100 * ScoreUnit, @ + score_increase),
       !.last_score_calculation = 0]

\* Validator.update_activity
update_activity(validator, current_time) ==
    [validator EXCEPT !.last_activity = current_time,
                      !.last_seen = current_time]

\* Validator.update_contribution_score
update_contribution_score(validator, new_contribution) ==
    [validator EXCEPT
       !.contribution_score = (@ * 9) \div 10 + new_contribution \div 10,
       !.last_score_calculation = 0]

\* Validator.update_reliability_score
update_reliability_score(validator, success) ==
    [validator EXCEPT
       !.reliability_score = IF success THEN Min(100 * ScoreUnit, @ + ScoreUnit)
                             ELSE Max(0, @ - 5 * ScoreUnit),
       !.last_score_calculation = 0]

\* Validator.update_uptime
update_uptime(validator, seconds) ==
    [validator EXCEPT !.total_uptime_seconds = @ + seconds]

\* Validator.record_block_attempt
record_block_attempt(validator, success, tx_count) ==
    [validator EXCEPT
       !.blocks_attempted = @ + 1,
       !.blocks_successful = IF success THEN @ + 1 ELSE @,
       !.txs_processed = @ + tx_count]

\* Validator.rate_peer at time t: the rating is filed with the validator
\* that gives it, under the address of the peer it rates
rate_peer(validator, peer_address, rating, t) ==
    [validator EXCEPT !.peer_ratings = Put(@, peer_address, rating),
                      !.last_peer_review = t]

RECURSIVE SumOfRatings(_)
\* sum(ratings) over the values of a peer_ratings dict
SumOfRatings(peer_ratings) ==
    IF DOMAIN peer_ratings = {} THEN 0
    ELSE Only({peer_ratings[peer]
                 + SumOfRatings([q \in DOMAIN peer_ratings \ {peer} |->
                                    peer_ratings[q]])
               : peer \in {CHOOSE q \in DOMAIN peer_ratings : TRUE}})

\* Validator.get_average_peer_rating
get_average_peer_rating(validator) ==
    IF DOMAIN validator.peer_ratings = {} THEN 100 * ScoreUnit
    ELSE SumOfRatings(validator.peer_ratings)
            \div Cardinality(DOMAIN validator.peer_ratings)

\* Validator.update_reputation_score
update_reputation_score(validator) ==
    Only({[validator EXCEPT
             !.reputation_score =
                 (peer_rating * 4) \div 10
                 + (validator.reliability_score * 3) \div 10
                 + (Min(100 * ScoreUnit, validator.contribution_score) * 3)
                      \div 10,
             !.average_peer_rating = peer_rating,
             !.last_score_calculation = 0]
          : peer_rating \in {get_average_peer_rating(validator)}})

\* Validator.convert_credits_to_stake: 1 credit = 0.1 stake
convert_credits_to_stake(validator, credits_to_convert) ==
    Only({[validator EXCEPT !.contribution_credits = @ - credits,
                            !.stake = @ + (credits * Unit) \div 10]
          : credits \in {Min(credits_to_convert,
                             validator.contribution_credits)}})

\* Validator.calculate_penalty_multiplier at time t
calculate_penalty_multiplier(validator, t) ==
    LET recent_penalties ==
            {i \in 1..Len(validator.penalty_history) :
                 t - validator.penalty_history[i].timestamp < ThirtyDays}
    IN  Min(5 * PenaltyUnit,
            PenaltyUnit + (Cardinality(recent_penalties) * PenaltyUnit) \div 2)

\* apply_penalty that works out the multiplier before it files the penalty
apply_penalty_multiplier_first(validator, penalty_type, severity, t) ==
    Only({[validator EXCEPT
             !.penalty_history =
                 Append(@, [timestamp |-> t, penalty_type |-> penalty_type,
                            severity |-> severity]),
             !.current_penalty_multiplier = multiplier,
             !.reputation_score = Max(0, @ - (severity * multiplier) \div 2),
             !.reliability_score =
                 Max(0, @ - (severity * multiplier * 3) \div 10),
             !.rehabilitation_progress = 0,
             !.last_score_calculation = 0]
          : multiplier \in {calculate_penalty_multiplier(validator, t)}})

\* Validator.apply_penalty at time t: severity * multiplier is counted in
\* hundredths
apply_penalty(validator, penalty_type, severity, t) ==
    Only({Only({[v EXCEPT
                   !.current_penalty_multiplier = multiplier,
                   !.reputation_score =
                       Max(0, @ - (severity * multiplier) \div 2),
                   !.reliability_score =
                       Max(0, @ - (severity * multiplier * 3) \div 10),
                   !.rehabilitation_progress = 0,
                   !.last_score_calculation = 0]
                : multiplier \in {calculate_penalty_multiplier(v, t)}})
          : v \in {[validator EXCEPT !.penalty_history =
                      Append(@, [timestamp |-> t, penalty_type |-> penalty_type,
                                 severity |-> severity])]}})

\* Validator.update_rehabilitation_progress
update_rehabilitation_progress(validator, contribution) ==
    Only({IF progress >= 100
          THEN [validator EXCEPT
                  !.current_penalty_multiplier =
                      Max(1 * PenaltyUnit, (@ * 8) \div 10),
                  !.rehabilitation_progress = 0]
          ELSE [validator EXCEPT !.rehabilitation_progress = progress]
          : progress \in {Min(100, validator.rehabilitation_progress
                                   + contribution)}})

\* earn_contribution_credits at the former rate of a tenth of the credits
earn_contribution_credits_tenth(validator, credits) ==
    update_contribution_score(
        update_rehabilitation_progress(
            [validator EXCEPT !.contribution_credits = @ + credits],
            credits \div 10),
        (credits * ScoreUnit) \div 2)

\* Validator.earn_contribution_credits
earn_contribution_credits(validator, credits) ==
    update_contribution_score(
        update_rehabilitation_progress(
            [validator EXCEPT !.contribution_credits = @ + credits],
            credits * 1),
        (credits * ScoreUnit) \div 2)

\* LahkaBlockchain.apply_validator_penalty at time t
apply_validator_penalty(n, validator_address, penalty_type, severity, t) ==
    IF validator_address \in DOMAIN n.validators
    THEN [n EXCEPT !.validators[validator_address] =
                       apply_penalty(@, penalty_type, severity, t)]
    ELSE n

\* LahkaBlockchain.community_override_penalty at time t
community_override_penalty(n, validator_address, new_penalty_multiplier, t) ==
    IF validator_address \in DOMAIN n.validators
    THEN [n EXCEPT
            !.validators[validator_address] =
                [@ EXCEPT
                   !.current_penalty_multiplier = new_penalty_multiplier,
                   !.penalty_history =
                       Append(@, [timestamp |-> t,
                                  penalty_type |-> "community_override",
                                  severity |->
                                      n.validators[validator_address]
                                          .current_penalty_multiplier
                                      - new_penalty_multiplier])]]
    ELSE n

\* the histories of the validators are within the bound of the model
HistoryRoom ==
    \A a \in DOMAIN validators :
        Len(validators[a].penalty_history) < MaxPenalties

\* the validators have had fewer overrides than the bound of the model
OverrideRoom ==
    \A a \in DOMAIN validators :
        Cardinality({i \in 1..Len(validators[a].penalty_history) :
                        validators[a].penalty_history[i].penalty_type
                            = "community_override"}) < MaxOverrides

PenaltySubmit ==
    \E tx \in {Transaction("genesis", "A", BigAmount, "transfer", NoData,
                           DefaultGas, 1, 0)} :
        /\ Len(pending_transactions) < MaxPending
        /\ \E r \in {add_transaction(Node, tx)} :
               /\ SetNode(r.node)
               /\ last' = Observed("add_transaction", r.ok, r.node, <<>>, tx.hash)
        /\ UNCHANGED <<now, stops, p2p, threads>>

PenaltyMine ==
    /\ Len(chain) < 2
    /\ \E validator \in ProposerChoices(Node) :
        \E r \in {mine_block(Node, validator, now, <<>>)} :
            /\ r.ok
            /\ SetNode(r.node)
            /\ last' = Observed("mine_block", r.ok, r.node, r.txlog, <<"none">>)
            /\ now' = now + 1
            /\ UNCHANGED <<stops, p2p, threads>>

PenaltyRegister ==
    /\ Len(pending_transactions) < MaxPending
    /\ \E r \in {register_validator(Node, "A", minimum_stake)} :
           /\ SetNode(Scored(r.node, "A", now))
           /\ last' = Observed("register_validator", r.ok, r.node, <<>>,
                               <<"none">>)
    /\ UNCHANGED <<now, stops, p2p, threads>>

ApplyPenalty ==
    \E validator_address \in {"A", "B"} :
        /\ HistoryRoom
        /\ \E n \in {apply_validator_penalty(Node, validator_address, "test",
                                             10, now)} :
               /\ SetNode(n)
               /\ last' = Observed("apply_penalty", TRUE, n, <<>>, <<"none">>)
        /\ UNCHANGED <<now, stops, p2p, threads>>

EarnContributionCredits ==
    \E a \in DOMAIN validators, credits \in {60} :
        /\ validators[a].contribution_credits < MaxCredits
        /\ \E n \in {[Node EXCEPT !.validators[a] =
                         earn_contribution_credits(@, credits)]} :
               /\ SetNode(n)
               /\ last' = Observed("earn_contribution_credits", TRUE, n, <<>>,
                                   <<"none">>)
        /\ UNCHANGED <<now, stops, p2p, threads>>

UpdateRehabilitationProgress ==
    \E a \in DOMAIN validators, contribution \in {100} :
        /\ \E n \in {[Node EXCEPT !.validators[a] =
                         update_rehabilitation_progress(@, contribution)]} :
               /\ SetNode(n)
               /\ last' = Observed("update_rehabilitation_progress", TRUE, n,
                                   <<>>, <<"none">>)
        /\ UNCHANGED <<now, stops, p2p, threads>>

\* the multipliers the community may ask for: 1.0 and 7.0
OverrideMultipliers == {1 * PenaltyUnit, 7 * PenaltyUnit}

CommunityOverridePenalty ==
    \E validator_address \in {"A", "B"},
       new_penalty_multiplier \in OverrideMultipliers :
        /\ HistoryRoom
        /\ OverrideRoom
        /\ \E n \in {community_override_penalty(Node, validator_address,
                                                new_penalty_multiplier, now)} :
               /\ SetNode(n)
               /\ last' = Observed("community_override_penalty", TRUE, n, <<>>,
                                   <<"none">>)
        /\ UNCHANGED <<now, stops, p2p, threads>>

\* thirty days pass
PenaltyWait ==
    /\ now < StartTime + MaxWaits * ThirtyDays
    /\ now' = now + ThirtyDays
    /\ last' = Observed("wait", TRUE, Node, <<>>, <<"none">>)
    /\ UNCHANGED <<chain, pending_transactions, validators, accounts,
                   contracts, processed_tx_hashes, store, stops, p2p, threads>>

NextPenalty ==
    \/ PenaltySubmit
    \/ PenaltyMine
    \/ PenaltyRegister
    \/ ApplyPenalty
    \/ EarnContributionCredits
    \/ UpdateRehabilitationProgress
    \/ CommunityOverridePenalty
    \/ PenaltyWait

SpecPenalty == Init /\ [][NextPenalty]_vars

----------------------------------------------------------------------------
(* Two nodes constructed on empty stores, at different times and with       *)
(* different settings                                                       *)

StartTimes == {StartTime, StartTime + 1}

\* a constructor that stamps the genesis block with the clock
LahkaBlockchainClockGenesis(test_mode, db, t) ==
    Only({IF n.chain = <<>>
          THEN Only({create_account(
                        put_block([n EXCEPT !.chain = Append(@, genesis_block)],
                                  genesis_block),
                        "genesis", GENESIS_SUPPLY)
                     : genesis_block \in {Block(0, t, <<>>, <<"0">>, "genesis",
                                                <<"">>)}})
          ELSE n
          : n \in {load_chain_from_db(NewNode(db))}})

\* LahkaBlockchain(test_mode=test_mode, db_path=db) constructed when the
\* clock reads t: test_mode is only stored, and no statement of __init__,
\* _load_chain_from_db or create_genesis_block reads the clock for a block
LahkaBlockchain(test_mode, db, t) == StartNode(db)

InitGenesis ==
    \E t \in StartTimes, peer_t \in StartTimes,
       test_mode \in BOOLEAN, peer_test_mode \in BOOLEAN :
        \E n \in {LahkaBlockchain(test_mode, EmptyStore, t)} :
            /\ chain = n.chain
            /\ pending_transactions = n.pending_transactions
            /\ validators = n.validators
            /\ accounts = n.accounts
            /\ contracts = n.contracts
            /\ processed_tx_hashes = n.processed_tx_hashes
            /\ store = n.store
            /\ now = t
            /\ stops = 0
            /\ p2p = [P2PInit EXCEPT !.peer =
                         Settled(LahkaBlockchain(peer_test_mode, EmptyStore,
                                                 peer_t))]
            /\ threads = ThreadsInit
            /\ last = ("started" :> [t |-> t, peer_t |-> peer_t,
                                     test_mode |-> test_mode,
                                     peer_test_mode |-> peer_test_mode])
                      @@ [op |-> "init", ok |-> TRUE, raised |-> FALSE,
                          txlog |-> <<>>, ublog |-> <<>>, start |-> <<>>,
                          replay |-> FALSE]

SpecGenesis == InitGenesis /\ [][NextSync]_vars

----------------------------------------------------------------------------
(* A contract written by set_state calls and read by key path, on a node    *)
(* that is stopped and started                                              *)

MaxContractChain == 4    \* blocks in the chain of the node with the contract

ContractKeys == {"counter", "total.count", ""}

SetStateData(contract_address, key, value) ==
    ("contract_address" :> contract_address)
    @@ ("function_name" :> "set_state")
    @@ ("args" :> <<key, IntVal(value)>>)

ContractTxs ==
    {Transaction("genesis", "", 0, "contract_deploy", DeployData, DefaultGas, 1, 0)}
    \cup {Transaction("genesis", "", 0, "contract_call",
                      SetStateData(ContractAddrPool[1], key, value),
                      DefaultGas, 1, nonce)
             : key \in ContractKeys, value \in {5, 7}, nonce \in {1, 2}}

IsSetState(tx) ==
    /\ tx.transaction_type.value = "contract_call"
    /\ tx.data["function_name"] = "set_state"

RECURSIVE Deployed(_, _, _)
\* the addresses of the contracts whose deployment in txlog was processed
Deployed(deployed, txlog, new_addresses) ==
    IF txlog = <<>> THEN deployed
    ELSE IF IsDeploy(Head(txlog).tx)
    THEN Deployed(IF Head(txlog).raised THEN deployed
                  ELSE deployed \cup {Head(new_addresses)},
                  Tail(txlog), Tail(new_addresses))
    ELSE Deployed(deployed, Tail(txlog), new_addresses)

RECURSIVE Written(_, _)
\* per key, the value of the last set_state call of txlog that was processed
Written(written, txlog) ==
    IF txlog = <<>> THEN written
    ELSE Written(IF IsSetState(Head(txlog).tx) /\ ~Head(txlog).raised
                 THEN Put(written, Head(txlog).tx.data["args"][1],
                          Head(txlog).tx.data["args"][2])
                 ELSE written,
                 Tail(txlog))

\* what has been deployed and written so far
ContractHistory ==
    IF "deployed" \in DOMAIN last
    THEN [deployed |-> last.deployed, written |-> last.written]
    ELSE [deployed |-> {}, written |-> <<>>]

ContractObserved(h, observed) ==
    ("deployed" :> h.deployed) @@ ("written" :> h.written) @@ observed

ContractSubmit ==
    \E tx \in ContractTxs :
        /\ CanAdmit(tx)
        /\ \E r \in {add_transaction(Node, tx)} :
               /\ SetNode(r.node)
               /\ last' = ContractObserved(ContractHistory,
                              Observed("add_transaction", r.ok, r.node, <<>>,
                                       tx.hash))
        /\ UNCHANGED <<now, stops, p2p, threads>>

ContractMine ==
    /\ Len(chain) < MaxContractChain
    /\ \E validator \in ProposerChoices(Node),
          q \in NewAddressChoices(pending_transactions) :
        \E r \in {mine_block(Node, validator, now, q)} :
            /\ SetNode(r.node)
            /\ last' = ContractObserved(
                           [deployed |-> Deployed(ContractHistory.deployed,
                                                  r.txlog, q),
                            written |-> Written(ContractHistory.written,
                                                r.txlog)],
                           Observed("mine_block", r.ok, r.node, r.txlog,
                                    <<"none">>))
            /\ now' = IF r.node.chain # chain THEN now + 1 ELSE now
            /\ UNCHANGED <<stops, p2p, threads>>

\* the node is closed and LahkaBlockchain(db_path) runs again on the store
ContractRestart ==
    /\ stops < MaxStops
    /\ \E n \in {StartNode(store)} :
           /\ SetNode(n)
           /\ last' = ContractObserved(ContractHistory,
                          Observed("restart", TRUE, n, <<>>, <<"none">>))
           /\ now' = now
           /\ stops' = stops + 1
           /\ UNCHANGED <<p2p, threads>>

NextContract ==
    \/ ContractSubmit
    \/ ContractMine
    \/ ContractRestart

SpecContract == Init /\ [][NextContract]_vars

----------------------------------------------------------------------------
(* Validation of a contract's source, and deployments of sources that it    *)
(* rejects                                                                  *)

ValidationGas == 10000          \* validate_contract_source(..., gas_limit=10000)

FORBIDDEN_NAMES == {"exec", "eval", "open", "__import__", "compile", "input",
                    "globals", "locals", "os", "sys", "subprocess"}
FORBIDDEN_NODES == {"Import", "ImportFrom", "With", "Try", "Lambda"}

AstNode(kind, id) == [kind |-> kind, id |-> id]

\* ast.parse(contract_source): the nodes of the tree in the order
\* NodeVisitor visits them; id is the name of a Name node and the name an
\* Attribute node is taken from
Ast(contract_source) ==
    CASE contract_source = "import os" ->
           <<AstNode("Module", ""), AstNode("Import", "")>>
      [] contract_source = "with f: pass" ->
           <<AstNode("Module", ""), AstNode("With", "")>>
      [] contract_source = "try: pass\nexcept: pass" ->
           <<AstNode("Module", ""), AstNode("Try", "")>>
      [] contract_source = "f = lambda: 0" ->
           <<AstNode("Module", ""), AstNode("Assign", ""), AstNode("Name", "f"),
             AstNode("Store", ""), AstNode("Lambda", "")>>
      [] contract_source = "eval('1')" ->
           <<AstNode("Module", ""), AstNode("Expr", ""), AstNode("Call", ""),
             AstNode("Name", "eval")>>
      [] contract_source = "pass\n * 10000" ->
           [k \in 1..(ValidationGas + 1) |->
               IF k = 1 THEN AstNode("Module", "") ELSE AstNode("Pass", "")]
      [] contract_source = "x = 1" ->
           <<AstNode("Module", ""), AstNode("Assign", ""), AstNode("Name", "x"),
             AstNode("Store", ""), AstNode("Constant", "")>>
      [] OTHER ->      \* "code", the source the other deployments carry
           <<AstNode("Module", ""), AstNode("Expr", ""),
             AstNode("Name", contract_source), AstNode("Load", "")>>

\* the gas LakhaContractSandbox has used once it has visited the first k
\* nodes: one per visit, one more in visit_Name, visit_Attribute, visit_Call
SandboxGas(tree, k) ==
    k + Cardinality({j \in 1..k : tree[j].kind \in {"Name", "Attribute", "Call"}})

\* LakhaContractVM.validate_contract_source: TRUE when the visit of the tree
\* ends without a RuntimeError.  visit raises once the gas used exceeds the
\* limit; generic_visit raises on a forbidden node, visit_Name and
\* visit_Attribute on a forbidden name; the test of visit_Call asks for a
\* name that is not an identifier and never raises.
validate_contract_source(contract_source, gas_limit) ==
    Only({\A k \in 1..Len(tree) :
             /\ SandboxGas(tree, k - 1) + 1 <= gas_limit
             /\ tree[k].kind \notin FORBIDDEN_NODES
             /\ tree[k].kind \in {"Name", "Attribute"}
                   => tree[k].id \notin FORBIDDEN_NAMES
          : tree \in {Ast(contract_source)}})

ContractSources ==
    {"x = 1", "import os", "with f: pass", "try: pass\nexcept: pass",
     "f = lambda: 0", "eval('1')", "pass\n * 10000"}

SourceTxs ==
    {Transaction("genesis", "", 0, "contract_deploy",
                 ("contract_code" :> contract_code)
                 @@ ("initial_state" :> ("counter" :> IntVal(0))),
                 DefaultGas, 1, nonce)
        : contract_code \in ContractSources, nonce \in GenesisNonces}

SourceSubmit ==
    \E tx \in SourceTxs :
        /\ CanAdmit(tx)
        /\ \E r \in {add_transaction(Node, tx)} :
               /\ SetNode(r.node)
               /\ last' = Observed("add_transaction", r.ok, r.node, <<>>, tx.hash)
        /\ UNCHANGED <<now, stops, p2p, threads>>

NextSource == SourceSubmit \/ MineBlock \/ Restart

SpecSource == Init /\ [][NextSource]_vars

----------------------------------------------------------------------------
(* Block and transaction messages that repeat what the node already has     *)

MaxMessageChain == 3    \* blocks in the chain of the node that receives

MessageTxs ==
    {Transaction("genesis", "A", BigAmount, "transfer", NoData, DefaultGas, 1, k)
        : k \in 0..1}

\* the 'block' messages a peer may send: every block of this chain as it
\* is, the same block under another hash, and a block built on this tip
BlockMessages ==
    {Block_to_dict(chain[i]) : i \in 1..Len(chain)}
    \cup {[Block_to_dict(chain[i]) EXCEPT !.hash = <<"other">>]
             : i \in 1..Len(chain)}
    \cup {Block_to_dict(Block(Len(chain), now, txs, get_latest_block(Node).hash,
                              "genesis", calculate_state_root(Node)))
             : txs \in {<<>>} \cup {<<tx>> : tx \in MessageTxs}}

\* the 'transaction' messages a peer may send
TransactionMessages ==
    UNION {{Transaction_to_dict(t),
            [Transaction_to_dict(t) EXCEPT !.hash = <<"other">>]}
           : t \in MessageTxs}

\* what the handler of a message did: the message, what was sent back, and
\* the kinds of the repeated messages that arrived since the last other call
Received(type, payload, sent, repeated, observed) ==
    ("message" :> [type |-> type, payload |-> payload])
    @@ ("sent" :> sent)
    @@ ("repeats" :> (IF repeated
                      THEN {type} \cup (IF "repeats" \in DOMAIN last
                                        THEN last.repeats ELSE {})
                      ELSE {}))
    @@ observed

\* the block of the message is in the chain at its index, with its hash
BlockIsInChain(block_data) ==
    /\ block_data.index >= 0
    /\ block_data.index < Len(chain)
    /\ chain[block_data.index + 1].hash = block_data.hash

\* the hash of the message is among the processed or the pending ones
TransactionIsKnown(tx_data) ==
    \/ tx_data.hash \in processed_tx_hashes
    \/ \E i \in 1..Len(pending_transactions) :
          pending_transactions[i].hash = tx_data.hash

MessageSubmit ==
    \E tx \in MessageTxs :
        /\ CanAdmit(tx)
        /\ \E r \in {add_transaction(Node, tx)} :
               /\ SetNode(r.node)
               /\ last' = Observed("add_transaction", r.ok, r.node, <<>>, tx.hash)
        /\ UNCHANGED <<now, stops, p2p, threads>>

MessageMine ==
    /\ Len(chain) < MaxMessageChain
    /\ \E validator \in ProposerChoices(Node),
          q \in NewAddressChoices(pending_transactions) :
        \E r \in {mine_block(Node, validator, now, q)} :
            /\ SetNode(r.node)
            /\ last' = Observed("mine_block", r.ok, r.node, r.txlog, <<"none">>)
            /\ now' = IF r.node.chain # chain THEN now + 1 ELSE now
            /\ UNCHANGED <<stops, p2p, threads>>

\* a 'block' message arrives
ReceiveBlock ==
    \E block_data \in BlockMessages :
        /\ block_data.index < MaxMessageChain
        /\ \E q \in NewAddressChoices(block_data.transactions) :
           \E r \in {handle_incoming_block(Node, block_data, q)} :
               /\ SetNode(r.node)
               /\ last' = Received("block", block_data, r.sent,
                              BlockIsInChain(block_data),
                              Observed("handle_incoming_block", TRUE, r.node,
                                       <<>>, <<"none">>))
               /\ now' = IF r.node.chain # chain THEN now + 1 ELSE now
        /\ UNCHANGED <<stops, p2p, threads>>

\* a 'transaction' message arrives
ReceiveTransaction ==
    \E tx_data \in TransactionMessages :
        /\ Len(pending_transactions) < MaxPending
        /\ \E r \in {handle_incoming_transaction(Node, tx_data)} :
               /\ SetNode(r.node)
               /\ last' = Received("transaction", tx_data, <<>>,
                              TransactionIsKnown(tx_data),
                              Observed("handle_incoming_transaction", r.ok,
                                       r.node, <<>>, tx_data.hash))
        /\ UNCHANGED <<now, stops, p2p, threads>>

\* the 'request_block' payloads a peer may send: an index in the chain, past
\* its end, below zero, and no index at all
RequestPayloads ==
    {[index |-> i] : i \in (-(MaxMessageChain + 1))..MaxMessageChain}
    \cup {[height |-> 0]}

\* a 'request_block' message arrives
ReceiveRequestBlock ==
    \E request_data \in RequestPayloads :
        /\ last' = Received("request_block", request_data,
                            handle_request_block(Node, request_data), FALSE,
                            Observed("handle_request_block", TRUE, Node, <<>>,
                                     <<"none">>))
        /\ UNCHANGED <<chain, pending_transactions, validators, accounts,
                       contracts, processed_tx_hashes, store, now, stops, p2p,
                       threads>>

NextMessages ==
    \/ MessageSubmit
    \/ MessageMine
    \/ ReceiveBlock
    \/ ReceiveTransaction
    \/ ReceiveRequestBlock

SpecMessages == Init /\ [][NextMessages]_vars

----------------------------------------------------------------------------
(* Nonces of the transactions a node admits, with senders other than        *)
(* genesis and blocks of a peer                                             *)

MaxNonceChain == 3      \* blocks in the chain of the node, genesis included

NonceTxs ==
    {Transaction("genesis", "A", BigAmount, "transfer", NoData, DefaultGas, 1, k)
        : k \in GenesisNonces}
    \cup {Transaction("A", "B", amount, "transfer", NoData, DefaultGas, 1, k)
             : amount \in {SmallAmount, 2 * SmallAmount}, k \in 0..2}

NonceSubmit ==
    \E tx \in NonceTxs :
        /\ CanAdmit(tx)
        /\ \E r \in {add_transaction(Node, tx)} :
               /\ SetNode(r.node)
               /\ last' = ("tx" :> tx)
                          @@ Observed("add_transaction", r.ok, r.node, <<>>,
                                      tx.hash)
        /\ UNCHANGED <<now, stops, p2p, threads>>

NonceMine ==
    /\ Len(chain) < MaxNonceChain
    /\ \E validator \in ProposerChoices(Node),
          q \in NewAddressChoices(pending_transactions) :
        \E r \in {mine_block(Node, validator, now, q)} :
            /\ SetNode(r.node)
            /\ last' = Observed("mine_block", r.ok, r.node, r.txlog, <<"none">>)
            /\ now' = IF r.node.chain # chain THEN now + 1 ELSE now
            /\ UNCHANGED <<stops, p2p, threads>>

\* the blocks a peer with this chain and an empty mempool may have mined
\* from one transaction it admitted
NoncePeerBlocks ==
    {Block(Len(chain), now, <<tx>>, get_latest_block(Node).hash, "genesis",
           calculate_state_root(Node))
        : tx \in {t \in NonceTxs :
                     add_transaction([Node EXCEPT !.pending_transactions = <<>>],
                                     t).ok}}

\* add_block for a block received from the peer
NonceAddBlock ==
    /\ Len(chain) < MaxNonceChain
    /\ \E block \in NoncePeerBlocks :
        \E r \in {add_block(Node, block, FALSE, <<>>)} :
            /\ SetNode(r.node)
            /\ last' = Observed("add_block", r.ok, r.node, r.txlog, <<"none">>)
            /\ now' = IF r.node.chain # chain THEN now + 1 ELSE now
            /\ UNCHANGED <<stops, p2p, threads>>

NextNonce ==
    \/ NonceSubmit
    \/ NonceMine
    \/ NonceAddBlock

SpecNonce == Init /\ [][NextNonce]_vars

----------------------------------------------------------------------------
(* A node on which accounts are funded and register_validator is called     *)
(* with addresses and stakes of every kind                                  *)

MaxRegisterChain == 3   \* blocks in the chain of the node, genesis included

RegisterTxs ==
    {Transaction("genesis", "A", amount, "transfer", NoData, DefaultGas, 1, k)
        : amount \in {15 * Unit, SmallAmount}, k \in 0..1}
    \cup {Transaction("A", "B", Unit, "transfer", NoData, DefaultGas, 1, 0)}

RegisterAddresses == {"", "zz", "A", "B", "genesis"}

RegisterStakes == {minimum_stake - 1, minimum_stake}

RegisterSubmit ==
    \E tx \in RegisterTxs :
        /\ Len(pending_transactions) < MaxPending
        /\ \E r \in {add_transaction(Node, tx)} :
               /\ SetNode(r.node)
               /\ last' = Observed("add_transaction", r.ok, r.node, <<>>,
                                   tx.hash)
        /\ UNCHANGED <<now, stops, p2p, threads>>

RegisterCall ==
    \E address \in RegisterAddresses, stake_amount \in RegisterStakes :
        /\ Len(pending_transactions) < MaxPending
        /\ \E r \in {register_validator(Node, address, stake_amount)} :
               /\ SetNode(r.node)
               /\ last' = [address |-> address, stake_amount |-> stake_amount]
                          @@ Observed("register_validator", r.ok, r.node, <<>>,
                                      <<"none">>)
        /\ UNCHANGED <<now, stops, p2p, threads>>

RegisterMine ==
    /\ Len(chain) < MaxRegisterChain
    /\ \E validator \in ProposerChoices(Node) :
        \E r \in {mine_block(Node, validator, now, <<>>)} :
            /\ SetNode(r.node)
            /\ last' = Observed("mine_block", r.ok, r.node, r.txlog, <<"none">>)
            /\ now' = IF r.node.chain # chain THEN now + 1 ELSE now
            /\ UNCHANGED <<stops, p2p, threads>>

NextRegister == RegisterSubmit \/ RegisterCall \/ RegisterMine

SpecRegister == Init /\ [][NextRegister]_vars

----------------------------------------------------------------------------
(* A node that appends blocks it mines and blocks of a peer, proposed by    *)
(* genesis, by a registered validator and by an address that is neither     *)

MaxRewardChain == 4     \* blocks in the chain of the node, genesis included

RewardTxs ==
    {Transaction("genesis", "A", BigAmount, "transfer", NoData, DefaultGas, 1, 0),
     Transaction("genesis", "B", SmallAmount, "transfer", NoData, DefaultGas, 1, 1),
     Transaction("A", "B", SmallAmount, "transfer", NoData, DefaultGas, 1, 0),
     Transaction("A", "genesis", SmallAmount, "transfer", NoData, DefaultGas, 1, 1)}

RewardSubmit ==
    \E tx \in RewardTxs :
        /\ Len(pending_transactions) < MaxPending
        /\ \E r \in {add_transaction(Node, tx)} :
               /\ SetNode(r.node)
               /\ last' = Observed("add_transaction", r.ok, r.node, <<>>,
                                   tx.hash)
        /\ UNCHANGED <<now, stops, p2p, threads>>

RewardRegister ==
    /\ Len(pending_transactions) < MaxPending
    /\ \E r \in {register_validator(Node, "A", minimum_stake)} :
           /\ SetNode(r.node)
           /\ last' = Observed("register_validator", r.ok, r.node, <<>>,
                               <<"none">>)
    /\ UNCHANGED <<now, stops, p2p, threads>>

\* the reward of this block fits under the maximum balance, as it does in
\* every run of the source shorter than 1e18 blocks (MAX_BALANCE is scaled
\* down in this model)
RewardFits(block) ==
    get_balance(ProcessAll(Node, block.transactions, <<>>).node, block.validator)
       + block_reward <= MAX_BALANCE

RewardMine ==
    /\ Len(chain) < MaxRewardChain
    /\ \E validator \in ProposerChoices(Node) :
        /\ RewardFits(create_block(Node, validator, now))
        /\ \E r \in {mine_block(Node, validator, now, <<>>)} :
            /\ SetNode(r.node)
            /\ last' = Observed("mine_block", r.ok, r.node, r.txlog, <<"none">>)
            /\ now' = IF r.node.chain # chain THEN now + 1 ELSE now
            /\ UNCHANGED <<stops, p2p, threads>>

\* the blocks a peer may send for the tip of this chain: empty or with one
\* transaction the peer admitted
RewardPeerBlocks ==
    {Block(Len(chain), now, txs, get_latest_block(Node).hash, validator,
           calculate_state_root(Node))
        : validator \in {"genesis", "A", "B"},
          txs \in {<<>>}
                  \cup {<<tx>> : tx \in {t \in RewardTxs :
                           add_transaction(
                             [Node EXCEPT !.pending_transactions = <<>>], t).ok}}}

\* add_block for a block received from the peer
RewardAddBlock ==
    /\ Len(chain) < MaxRewardChain
    /\ \E block \in RewardPeerBlocks :
        /\ RewardFits(block)
        /\ \E r \in {add_block(Node, block, FALSE, <<>>)} :
            /\ SetNode(r.node)
            /\ last' = Observed("add_block", r.ok, r.node, r.txlog, <<"none">>)
            /\ now' = IF r.node.chain # chain THEN now + 1 ELSE now
            /\ UNCHANGED <<stops, p2p, threads>>

NextReward == RewardSubmit \/ RewardRegister \/ RewardMine \/ RewardAddBlock

SpecReward == Init /\ [][NextReward]_vars

----------------------------------------------------------------------------
(* A node whose mempool grows past the size of a block, next to the fresh   *)
(* node; the history records the hashes in the order of their admission.    *)
(* Blocks are mined on mempools of up to MaxPending entries only.           *)

MaxOrderChain == 3      \* blocks in the chain of the node, genesis included
MaxOver == 2            \* pending transactions beyond the size of a block

OrderTxs ==
    {Transaction("genesis", "A", BigAmount, "transfer", NoData, DefaultGas, 1, 0),
     Transaction("genesis", "B", SmallAmount, "transfer", NoData, DefaultGas, 1, 1),
     Transaction("A", "B", SmallAmount, "transfer", NoData, DefaultGas, 1, 0),
     Transaction("A", "B", BigAmount, "transfer", NoData, DefaultGas, 1, 1)}
    \cup {PoolTx(MAX_BLOCK_TXS + k) : k \in 0..MaxOver}

\* the fresh node, or the node after add_transaction has accepted
\* PoolTx(1), ..., PoolTx(MAX_BLOCK_TXS - 1)
InitOrder ==
    \E n \in {StartNode(EmptyStore), FilledNode(MAX_BLOCK_TXS - 1)} :
        /\ chain = n.chain
        /\ pending_transactions = n.pending_transactions
        /\ validators = n.validators
        /\ accounts = n.accounts
        /\ contracts = n.contracts
        /\ processed_tx_hashes = n.processed_tx_hashes
        /\ store = n.store
        /\ now = StartTime
        /\ stops = 0
        /\ p2p = P2PInit
        /\ threads = ThreadsInit
        /\ last = [op |-> "init", ok |-> TRUE, raised |-> FALSE,
                   txlog |-> <<>>, ublog |-> <<>>, start |-> <<>>,
                   replay |-> FALSE,
                   admitted |-> [i \in 1..Len(n.pending_transactions) |->
                                    n.pending_transactions[i].hash]]

OrderSubmit ==
    \E tx \in OrderTxs :
        /\ \/ Len(pending_transactions) < MaxPending
           \/ /\ Len(pending_transactions) >= MAX_BLOCK_TXS - 1
              /\ Len(pending_transactions) < MAX_BLOCK_TXS + MaxOver
        /\ \E r \in {add_transaction(Node, tx)} :
               /\ SetNode(r.node)
               /\ last' = [admitted |-> IF r.ok THEN Append(last.admitted, tx.hash)
                                        ELSE last.admitted]
                          @@ Observed("add_transaction", r.ok, r.node, <<>>,
                                      tx.hash)
        /\ UNCHANGED <<now, stops, p2p, threads>>

OrderMine ==
    /\ Len(chain) < MaxOrderChain
    /\ Len(pending_transactions) <= MaxPending
    /\ \E validator \in ProposerChoices(Node) :
        \E r \in {mine_block(Node, validator, now, <<>>)} :
            /\ SetNode(r.node)
            /\ last' = [admitted |-> last.admitted]
                       @@ Observed("mine_block", r.ok, r.node, r.txlog,
                                   <<"none">>)
            /\ now' = IF r.node.chain # chain THEN now + 1 ELSE now
            /\ UNCHANGED <<stops, p2p, threads>>

NextOrder == OrderSubmit \/ OrderMine

SpecOrder == InitOrder /\ [][NextOrder]_vars

----------------------------------------------------------------------------
(* A node on which genesis deploys a contract, spends nearly all it holds   *)
(* and calls the contract                                                   *)

MaxRevertChain == 3     \* blocks in the chain of the node, genesis included

\* what genesis can send after the deployment so that less than the gas of a
\* call is left
DrainAmount == GENESIS_SUPPLY - 60 * Unit

RevertTxs ==
    {Transaction("genesis", "", 0, "contract_deploy", DeployData, DefaultGas, 1, 0),
     Transaction("genesis", "A", DrainAmount, "transfer", NoData, DefaultGas, 1, 1),
     Transaction("genesis", "A", SmallAmount, "transfer", NoData, DefaultGas, 1, 1)}
    \cup {Transaction("genesis", "", 0, "contract_call",
                      SetStateData(ContractAddrPool[1], "counter", value),
                      DefaultGas, 1, nonce)
             : value \in {5, 7}, nonce \in {1, 2}}
    \cup {Transaction("genesis", "", 0, "contract_call",
                      CallData(ContractAddrPool[1], "transfer_tokens"),
                      DefaultGas, 1, nonce)
             : nonce \in {1, 2}}

RevertSubmit ==
    \E tx \in RevertTxs :
        /\ CanAdmit(tx)
        /\ \E r \in {add_transaction(Node, tx)} :
               /\ SetNode(r.node)
               /\ last' = Observed("add_transaction", r.ok, r.node, <<>>,
                                   tx.hash)
        /\ UNCHANGED <<now, stops, p2p, threads>>

RevertMine ==
    /\ Len(chain) < MaxRevertChain
    /\ \E validator \in ProposerChoices(Node),
          q \in NewAddressChoices(pending_transactions) :
        \E r \in {mine_block(Node, validator, now, q)} :
            /\ SetNode(r.node)
            /\ last' = Observed("mine_block", r.ok, r.node, r.txlog, <<"none">>)
            /\ now' = IF r.node.chain # chain THEN now + 1 ELSE now
            /\ UNCHANGED <<stops, p2p, threads>>

NextRevert == RevertSubmit \/ RevertMine

SpecRevert == Init /\ [][NextRevert]_vars

----------------------------------------------------------------------------
(* The score cache of a validator.  The node has funded A in block 1 and    *)
(* register_validator(A) has returned True; the methods of the validator    *)
(* are then called in any order while the clock moves on.  The history      *)
(* records which validators had an input of the score changed since their   *)
(* score was last computed.                                                 *)

MaxScoreSteps == 4      \* method calls in a run
MaxScoreTicks == 5      \* seconds the clock moves on in a run

\* the node after add_transaction(genesis -> A), mine_block() and
\* register_validator(A, minimum_stake) at time t
RegisteredNode(t) ==
    Scored(
      register_validator(
        mine_block(
          add_transaction(StartNode(EmptyStore),
                          Transaction("genesis", "A", BigAmount, "transfer",
                                      NoData, DefaultGas, 1, 0)).node,
          "genesis", t, <<>>).node,
        "A", minimum_stake).node,
      "A", t)

InitScore ==
    \E n \in {Settled(RegisteredNode(StartTime))} :
        /\ chain = n.chain
        /\ pending_transactions = n.pending_transactions
        /\ validators = n.validators
        /\ accounts = n.accounts
        /\ contracts = n.contracts
        /\ processed_tx_hashes = n.processed_tx_hashes
        /\ store = n.store
        /\ now = StartTime
        /\ stops = 0
        /\ p2p = P2PInit
        /\ threads = ThreadsInit
        /\ last = [op |-> "init", address |-> "", score |-> 0, force |-> FALSE,
                   changed |-> {}, steps |-> 0]

\* the inputs of the PoCS formula that are fields of the validator
ScoreInputs(validator) ==
    <<validator.stake, validator.dynamic_weight_adjustment,
      validator.total_uptime_seconds, validator.blocks_attempted,
      validator.blocks_successful, validator.txs_processed,
      validator.contribution_score, validator.collaboration_score,
      validator.network_health_contribution, validator.reliability_score,
      validator.reputation_score, validator.diversity_bonus,
      validator.current_penalty_multiplier, validator.penalty_history>>

\* a method has turned the validator at address a into v
ScoreCalled(op, a, v) ==
    /\ last.steps < MaxScoreSteps
    /\ validators' = [validators EXCEPT ![a] = v]
    /\ last' = [op |-> op, address |-> a, score |-> 0, force |-> FALSE,
                changed |-> IF ScoreInputs(v) # ScoreInputs(validators[a])
                            THEN last.changed \cup {a} ELSE last.changed,
                steps |-> last.steps + 1]
    /\ UNCHANGED <<chain, pending_transactions, accounts, contracts,
                   processed_tx_hashes, store, now, stops, p2p, threads>>

CalculatePocsScore ==
    \E a \in DOMAIN validators, force_recalculate \in BOOLEAN :
        \E r \in {calculate_pocs_score(validators[a], now, force_recalculate)} :
            /\ last.steps < MaxScoreSteps
            /\ validators' = [validators EXCEPT ![a] = r.validator]
            /\ last' = [op |-> "calculate_pocs_score", address |-> a,
                        score |-> r.score, force |-> force_recalculate,
                        changed |-> IF r.validator.last_score_calculation = now
                                    THEN last.changed \ {a} ELSE last.changed,
                        steps |-> last.steps + 1]
            /\ UNCHANGED <<chain, pending_transactions, accounts, contracts,
                           processed_tx_hashes, store, now, stops, p2p, threads>>

ScoreEarnCredits ==
    \E a \in DOMAIN validators :
        ScoreCalled("earn_contribution_credits", a,
                    earn_contribution_credits(validators[a], 100))

ScoreConvertCredits ==
    \E a \in DOMAIN validators :
        ScoreCalled("convert_credits_to_stake", a,
                    convert_credits_to_stake(validators[a], 100))

ScoreRecordBlockAttempt ==
    \E a \in DOMAIN validators, success \in BOOLEAN :
        ScoreCalled("record_block_attempt", a,
                    record_block_attempt(validators[a], success, 2))

ScoreUpdateUptime ==
    \E a \in DOMAIN validators :
        ScoreCalled("update_uptime", a, update_uptime(validators[a], 5))

ScoreUpdateContribution ==
    \E a \in DOMAIN validators :
        ScoreCalled("update_contribution_score", a,
                    update_contribution_score(validators[a], 10 * ScoreUnit))

ScoreUpdateReliability ==
    \E a \in DOMAIN validators, success \in BOOLEAN :
        ScoreCalled("update_reliability_score", a,
                    update_reliability_score(validators[a], success))

ScoreUpdateCollaboration ==
    \E a \in DOMAIN validators :
        ScoreCalled("update_collaboration_score", a,
                    update_collaboration_score(validators[a], 2 * ScoreUnit))

ScoreUpdateReputation ==
    \E a \in DOMAIN validators :
        ScoreCalled("update_reputation_score", a,
                    update_reputation_score(validators[a]))

ScoreApplyPenalty ==
    \E a \in DOMAIN validators :
        ScoreCalled("apply_penalty", a,
                    apply_penalty(validators[a], "test", 10, now))

\* a second passes
ScoreTick ==
    /\ now < StartTime + MaxScoreTicks
    /\ now' = now + 1
    /\ UNCHANGED <<chain, pending_transactions, validators, accounts,
                   contracts, processed_tx_hashes, store, stops, p2p, threads,
                   last>>

NextScore ==
    \/ CalculatePocsScore
    \/ ScoreEarnCredits
    \/ ScoreConvertCredits
    \/ ScoreRecordBlockAttempt
    \/ ScoreUpdateUptime
    \/ ScoreUpdateContribution
    \/ ScoreUpdateReliability
    \/ ScoreUpdateCollaboration
    \/ ScoreUpdateReputation
    \/ ScoreApplyPenalty
    \/ ScoreTick

SpecScore == InitScore /\ [][NextScore]_vars

----------------------------------------------------------------------------
(* Penalties and rehabilitation of the registered validator A: penalties,   *)
(* credits earned in rounds, and thirty days passing.                       *)
(* The history counts the rounds of 5 credits and the completed cycles in   *)
(* a run that is one penalty followed by such rounds only.                  *)

MaxRehabPenalties == 2  \* penalties of the validator that earns in rounds
MaxSanctions == 9       \* entries in the penalty history of the validator
MaxRehabCredits == 100  \* contribution credits the validator earns
MaxSanctionCredits == 60 \* credits a validator under sanctions earns
MaxSanctionWaits == 1   \* times the clock moves on by thirty days

InitRehab ==
    \E n \in {Settled(RegisteredNode(StartTime))} :
        /\ chain = n.chain
        /\ pending_transactions = n.pending_transactions
        /\ validators = n.validators
        /\ accounts = n.accounts
        /\ contracts = n.contracts
        /\ processed_tx_hashes = n.processed_tx_hashes
        /\ store = n.store
        /\ now = StartTime
        /\ stops = 0
        /\ p2p = P2PInit
        /\ threads = ThreadsInit
        /\ last = [op |-> "init", address |-> "", severity |-> 0, credits |-> 0,
                   penalty_first |-> FALSE, rounds_only |-> TRUE, rounds |-> 0,
                   cycles |-> 0, after_penalty |-> 0]

\* a method has turned the validator at address a into v
RehabCalled(a, v, history) ==
    /\ validators' = [validators EXCEPT ![a] = v]
    /\ last' = history
    /\ UNCHANGED <<chain, pending_transactions, accounts, contracts,
                   processed_tx_hashes, store, now, stops, p2p, threads>>

RehabApplyPenalty ==
    \E a \in DOMAIN validators, severity \in {10, 20} :
        /\ Len(validators[a].penalty_history) < MaxRehabPenalties
        /\ \E v \in {apply_penalty(validators[a], "malicious", severity, now)} :
               RehabCalled(a, v,
                   [op |-> "apply_penalty", address |-> a,
                    severity |-> severity, credits |-> 0,
                    penalty_first |-> last.op = "init",
                    rounds_only |-> last.op = "init",
                    rounds |-> 0, cycles |-> 0,
                    after_penalty |-> v.current_penalty_multiplier])

RehabEarnCredits ==
    \E a \in DOMAIN validators, credits \in {5, 60} :
        /\ validators[a].contribution_credits + credits <= MaxRehabCredits
        /\ \E v \in {earn_contribution_credits(validators[a], credits)} :
               RehabCalled(a, v,
                   [last EXCEPT
                      !.op = "earn_contribution_credits",
                      !.address = a, !.severity = 0, !.credits = credits,
                      !.rounds_only = @ /\ credits = 5,
                      !.rounds = IF credits = 5 THEN @ + 1 ELSE @,
                      !.cycles =
                          IF validators[a].rehabilitation_progress + credits
                                >= 100
                          THEN @ + 1 ELSE @])

SanctionApplyPenalty ==
    \E a \in DOMAIN validators, severity \in {10, 20} :
        /\ Len(validators[a].penalty_history) < MaxSanctions
        /\ \E v \in {apply_penalty(validators[a], "malicious", severity, now)} :
               RehabCalled(a, v,
                   [last EXCEPT !.op = "apply_penalty", !.address = a,
                                !.severity = severity, !.credits = 0,
                                !.rounds_only = FALSE])

SanctionEarnCredits ==
    \E a \in DOMAIN validators, credits \in {60} :
        /\ validators[a].contribution_credits + credits <= MaxSanctionCredits
        /\ \E v \in {earn_contribution_credits(validators[a], credits)} :
               RehabCalled(a, v,
                   [last EXCEPT !.op = "earn_contribution_credits",
                                !.address = a, !.severity = 0,
                                !.credits = credits, !.rounds_only = FALSE])

\* thirty days pass
SanctionWait ==
    /\ now < StartTime + MaxSanctionWaits * ThirtyDays
    /\ now' = now + ThirtyDays
    /\ last' = [last EXCEPT !.op = "wait", !.rounds_only = FALSE]
    /\ UNCHANGED <<chain, pending_transactions, validators, accounts,
                   contracts, processed_tx_hashes, store, stops, p2p, threads>>

NextRehab ==
    \/ RehabApplyPenalty
    \/ RehabEarnCredits

NextSanction ==
    \/ SanctionApplyPenalty
    \/ SanctionEarnCredits
    \/ SanctionWait

SpecSanction == InitRehab /\ [][NextSanction]_vars

SpecRehab == InitRehab /\ [][NextRehab]_vars

----------------------------------------------------------------------------
(* Peer reviews and the selection of the proposer, on validators that carry *)
(* every field of the dataclass                                            *)

\* the loop of select_validator over the active validators: update_activity
\* and calculate_pocs_score for each, at current_time
ScoredActive(n, current_time) ==
    [a \in ActiveValidators(n) |->
        calculate_pocs_score(update_activity(n.validators[a], current_time),
                             current_time, FALSE)]

\* LahkaBlockchain.select_validator at current_time with the scores it
\* computes: the node after the call and the address returned, for every
\* order of the dict and for the draws 0, half the total and the total
SelectValidatorAt(n, current_time) ==
    IF ActiveValidators(n) = {}
    THEN {[node |-> n, validator |-> None, score |-> <<>>]}
    ELSE LET scored == ScoredActive(n, current_time)
             score == [a \in ActiveValidators(n) |-> scored[a].score]
             n1 == [n EXCEPT !.validators =
                       [a \in DOMAIN @ |->
                           IF a \in ActiveValidators(n)
                           THEN scored[a].validator ELSE @[a]]]
         IN  {[node |-> n1,
               validator |-> select_validator(n1, order, score, random_value),
               score |-> score]
                : order \in Orders(ActiveValidators(n)),
                  random_value \in
                      {0, SumOver(CHOOSE o \in Orders(ActiveValidators(n)) : TRUE,
                                  score) \div 2,
                       SumOver(CHOOSE o \in Orders(ActiveValidators(n)) : TRUE,
                               score)}}

\* the (reviewer, reviewee) pairs of one shuffled list of validators
PairsOf(order) ==
    [i \in 1..(Len(order) \div 2) |-> <<order[2 * i - 1], order[2 * i]>>]

\* LahkaBlockchain.assign_peer_reviews: the assignments over every shuffle
assign_peer_reviews(n) ==
    IF Cardinality(DOMAIN n.validators) < 2 THEN {<<>>}
    ELSE {PairsOf(order) : order \in Orders(DOMAIN n.validators)}

RECURSIVE process_peer_ratings(_, _, _)
\* LahkaBlockchain.process_peer_ratings at time t
process_peer_ratings(n, ratings, t) ==
    IF ratings = <<>> THEN n
    ELSE process_peer_ratings(
           IF /\ Head(ratings).reviewer \in DOMAIN n.validators
              /\ Head(ratings).reviewee \in DOMAIN n.validators
           THEN Only({[n1 EXCEPT !.validators[Head(ratings).reviewee] =
                                     update_reputation_score(@)]
                      : n1 \in {[n EXCEPT !.validators[Head(ratings).reviewer] =
                                   rate_peer(@, Head(ratings).reviewee,
                                             Head(ratings).rating, t)]}})
           ELSE n,
           Tail(ratings), t)

\* the values random.uniform(-10, 10) is drawn from
RatingNoise == {-10 * ScoreUnit, 0, 10 * ScoreUnit}

\* the ratings trigger_peer_reviews makes up for these assignments
SampleRatings(n, assignments) ==
    {[i \in 1..Len(assignments) |->
         [reviewer |-> assignments[i][1], reviewee |-> assignments[i][2],
          rating |->
              Max(1 * ScoreUnit,
                  Min(100 * ScoreUnit,
                      Min(100 * ScoreUnit,
                          Max(1 * ScoreUnit,
                              n.validators[assignments[i][2]].reliability_score))
                      + noise[i]))]]
        : noise \in [1..Len(assignments) -> RatingNoise]}

\* LahkaBlockchain.trigger_peer_reviews at time t: the nodes it may leave,
\* each with the ratings processed
trigger_peer_reviews(n, t) ==
    UNION {{[node |-> process_peer_ratings(n, ratings, t), ratings |-> ratings]
              : ratings \in SampleRatings(n, assignments)}
             : assignments \in assign_peer_reviews(n)}

\* the validator bookkeeping of add_block at time t with every field, the
\* peer review round included: the nodes it may leave, each with the
\* ratings processed and whether trigger_peer_reviews was called
UpdateValidatorAt(n, block, t) ==
    IF block.validator \notin DOMAIN n.validators
    THEN {[node |-> n, ratings |-> <<>>, reviewed |-> FALSE]}
    ELSE LET validator ==
                 record_block_attempt(
                   update_uptime(
                     update_reliability_score(
                       update_contribution_score(
                         update_activity(
                           [n.validators[block.validator]
                              EXCEPT !.blocks_validated = @ + 1],
                           t),
                         10 * ScoreUnit),
                       TRUE),
                     5),
                   TRUE, Len(block.transactions))
             n1 == [n EXCEPT !.validators[block.validator] = validator]
         IN  IF Len(n.chain) % 5 = 0 /\ Cardinality(DOMAIN n.validators) >= 2
             THEN {[node |-> put_validator(r.node, block.validator),
                    ratings |-> r.ratings, reviewed |-> TRUE]
                      : r \in trigger_peer_reviews(n1, t)}
             ELSE {[node |-> put_validator(n1, block.validator),
                    ratings |-> <<>>, reviewed |-> FALSE]}

\* LahkaBlockchain.add_block at time t for a block of create_block, with
\* the whole validator bookkeeping
AddBlockAt(n, block, t) ==
    IF ~validate_block(n, block)
    THEN {[ok |-> FALSE, node |-> n, ratings |-> <<>>, reviewed |-> FALSE]}
    ELSE LET p == ProcessAll(n, block.transactions, <<>>)
             applied == [block EXCEPT !.transactions = p.txs]
             n1 == [p.node EXCEPT
                      !.pending_transactions =
                          RemoveAll(p.txs \o SubSeq(@, Len(block.transactions) + 1,
                                                    Len(@)),
                                    p.txs)]
             n2 == update_balance([n1 EXCEPT !.chain = Append(@, applied)],
                                  applied.validator, block_reward)
         IN  IF n2.exc
             THEN {[ok |-> FALSE, node |-> n2, ratings |-> <<>>,
                    reviewed |-> FALSE]}
             ELSE {[ok |-> TRUE, node |-> put_block(r.node, applied),
                    ratings |-> r.ratings, reviewed |-> r.reviewed]
                      : r \in UpdateValidatorAt(n2, applied, t)}

\* LahkaBlockchain.mine_block at time t: the results over the proposers
\* select_validator may return
MineBlockAt(n, t) ==
    IF n.pending_transactions = <<>>
    THEN {[ok |-> FALSE, node |-> n, ratings |-> <<>>, reviewed |-> FALSE,
           validator |-> None]}
    ELSE IF Len(n.chain) = 1 /\ DOMAIN n.validators = {}
    THEN {[validator |-> "genesis"] @@ r
             : r \in AddBlockAt(n, create_block(n, "genesis", t), t)}
    ELSE LET Chosen(s) == IF s.validator = None THEN "genesis"
                          ELSE s.validator
         IN  UNION {{[validator |-> Chosen(s)] @@ r
                       : r \in AddBlockAt(s.node,
                                          create_block(s.node, Chosen(s), t),
                                          t)}
                      : s \in SelectValidatorAt(n, t)}

\* LahkaBlockchain.mine_block_with_validator at time t, test_mode off
MineBlockWithValidatorAt(n, validator_address, t) ==
    IF n.pending_transactions = <<>>
       \/ (validator_address # "genesis"
           /\ validator_address \notin DOMAIN n.validators)
    THEN {[ok |-> FALSE, node |-> n, ratings |-> <<>>, reviewed |-> FALSE,
           validator |-> validator_address]}
    ELSE {[validator |-> validator_address] @@ r
             : r \in AddBlockAt(n, create_block(n, validator_address, t), t)}

MaxReviewChain == 5   \* blocks in the chain of the node under review
MaxReviewPending == 2 \* transactions in its mempool
MaxSelectChain == 4   \* blocks in the chain of the node that selects
MaxSelectDays == 2    \* whole days the clock moves on
Day == 86400

ReviewTxs ==
    {Transaction("genesis", "A", SmallAmount, "transfer", NoData, DefaultGas,
                 1, nonce) : nonce \in 2..3}

\* the node that has funded A and B in its first block
FundedNode ==
    Only({r.node : r \in
        MineBlockAt(
          add_transaction(
            add_transaction(StartNode(EmptyStore),
                            Transaction("genesis", "A", SmallAmount, "transfer",
                                        NoData, DefaultGas, 1, 0)).node,
            Transaction("genesis", "B", SmallAmount, "transfer", NoData,
                        DefaultGas, 1, 1)).node,
          StartTime)})

RECURSIVE RatingsReceived(_, _)
\* the ratings on record for each validator that received one: the last
\* rating of each reviewer
RatingsReceived(received, ratings) ==
    IF ratings = <<>> THEN received
    ELSE RatingsReceived(
           Put(received, Head(ratings).reviewee,
               Put(IF Head(ratings).reviewee \in DOMAIN received
                   THEN received[Head(ratings).reviewee] ELSE <<>>,
                   Head(ratings).reviewer, Head(ratings).rating)),
           Tail(ratings))

InitReview ==
    \E n \in {Settled(FundedNode)} :
        /\ chain = n.chain
        /\ pending_transactions = n.pending_transactions
        /\ validators = n.validators
        /\ accounts = n.accounts
        /\ contracts = n.contracts
        /\ processed_tx_hashes = n.processed_tx_hashes
        /\ store = n.store
        /\ now = StartTime + 1
        /\ stops = 0
        /\ p2p = P2PInit
        /\ threads = ThreadsInit
        /\ last = [op |-> "init", ok |-> TRUE, validator |-> None,
                   score |-> <<>>, reviewed |-> FALSE, ratings |-> <<>>,
                   received |-> <<>>]

ReviewRegister ==
    /\ Len(pending_transactions) < MaxReviewPending
    /\ \E address \in {"A", "B"} :
         \E r \in {register_validator(Node, address, minimum_stake)} :
           /\ SetNode(Settled(Scored(r.node, address, now)))
           /\ last' = [last EXCEPT !.op = "register_validator", !.ok = r.ok,
                                   !.validator = address, !.score = <<>>,
                                   !.reviewed = FALSE, !.ratings = <<>>]
    /\ UNCHANGED <<now, stops, p2p, threads>>

ReviewSubmit ==
    /\ Len(pending_transactions) < MaxReviewPending
    /\ \E tx \in ReviewTxs :
         \E r \in {add_transaction(Node, tx)} :
           /\ r.ok
           /\ SetNode(Settled(r.node))
           /\ last' = [last EXCEPT !.op = "add_transaction", !.ok = r.ok,
                                   !.validator = None, !.score = <<>>,
                                   !.reviewed = FALSE, !.ratings = <<>>]
    /\ UNCHANGED <<now, stops, p2p, threads>>

\* a block has or has not been mined with result r
ReviewMined(op, r) ==
    /\ ~r.node.exc
    /\ SetNode(Settled(r.node))
    /\ last' = [last EXCEPT !.op = op, !.ok = r.ok,
                            !.validator = r.validator, !.score = <<>>,
                            !.reviewed = r.reviewed, !.ratings = r.ratings,
                            !.received = RatingsReceived(@, r.ratings)]
    /\ now' = IF r.node.chain # chain THEN now + 1 ELSE now
    /\ UNCHANGED <<stops, p2p, threads>>

ReviewMine ==
    /\ Len(chain) < MaxReviewChain
    /\ pending_transactions # <<>>
    /\ \E r \in MineBlockAt(Node, now) : ReviewMined("mine_block", r)

ReviewMineWithValidator ==
    /\ Len(chain) < MaxReviewChain
    /\ pending_transactions # <<>>
    /\ \E validator_address \in {"genesis", "A", "B"} :
         \E r \in MineBlockWithValidatorAt(Node, validator_address, now) :
            ReviewMined("mine_block_with_validator", r)

\* process_peer_ratings with one rating a validator submits
ReviewRate ==
    /\ \E reviewer \in DOMAIN validators, reviewee \in DOMAIN validators :
         /\ reviewer # reviewee
         /\ \E ratings \in {<<[reviewer |-> reviewer, reviewee |-> reviewee,
                                 rating |-> 60 * ScoreUnit]>>} :
              /\ SetNode(Settled(process_peer_ratings(Node, ratings, now)))
              /\ last' = [last EXCEPT !.op = "process_peer_ratings",
                                      !.ok = TRUE, !.validator = None,
                                      !.score = <<>>, !.reviewed = FALSE,
                                      !.ratings = ratings,
                                      !.received = RatingsReceived(@, ratings)]
    /\ UNCHANGED <<now, stops, p2p, threads>>

NextReview ==
    \/ ReviewRegister
    \/ ReviewSubmit
    \/ ReviewMine
    \/ ReviewMineWithValidator
    \/ ReviewRate

SpecReview == InitReview /\ [][NextReview]_vars

\* the funded node after register_validator for A and for B and the block
\* with their stakes, proposed by genesis
StakedNode ==
    Only({r.node : r \in
        MineBlockWithValidatorAt(
          Scored(register_validator(
                   Scored(register_validator(Settled(FundedNode), "A",
                                             minimum_stake).node,
                          "A", StartTime + 1),
                   "B", minimum_stake).node,
                 "B", StartTime + 1),
          "genesis", StartTime + 1)})

SelectTxs ==
    {Transaction("genesis", "A", SmallAmount, "transfer", NoData, DefaultGas,
                 1, nonce) : nonce \in 2..4}

InitSelect ==
    \E n \in {Settled(StakedNode)} :
        /\ chain = n.chain
        /\ pending_transactions = n.pending_transactions
        /\ validators = n.validators
        /\ accounts = n.accounts
        /\ contracts = n.contracts
        /\ processed_tx_hashes = n.processed_tx_hashes
        /\ store = n.store
        /\ now = StartTime + 2
        /\ stops = 0
        /\ p2p = P2PInit
        /\ threads = ThreadsInit
        /\ last = [op |-> "init", ok |-> TRUE, validator |-> None,
                   score |-> <<>>, reviewed |-> FALSE, ratings |-> <<>>,
                   received |-> <<>>]

SelectSubmit ==
    /\ Len(pending_transactions) < MaxReviewPending
    /\ \E tx \in SelectTxs :
         \E r \in {add_transaction(Node, tx)} :
           /\ r.ok
           /\ SetNode(Settled(r.node))
           /\ last' = [last EXCEPT !.op = "add_transaction", !.ok = r.ok,
                                   !.validator = None, !.score = <<>>]
    /\ UNCHANGED <<now, stops, p2p, threads>>

SelectMine ==
    /\ Len(chain) < MaxSelectChain
    /\ pending_transactions # <<>>
    /\ \E r \in MineBlockAt(Node, now) : ReviewMined("mine_block", r)

SelectValidator ==
    /\ \E s \in SelectValidatorAt(Node, now) :
           /\ s.validator # None
           /\ SetNode(Settled(s.node))
           /\ last' = [last EXCEPT !.op = "select_validator", !.ok = TRUE,
                                   !.validator = s.validator,
                                   !.score = s.score,
                                   !.reviewed = FALSE, !.ratings = <<>>]
    /\ UNCHANGED <<now, stops, p2p, threads>>

\* a day passes
SelectTick ==
    /\ now < StartTime + MaxSelectDays * Day
    /\ now' = now + Day
    /\ last' = [last EXCEPT !.op = "tick", !.ok = TRUE, !.validator = None,
                            !.score = <<>>, !.reviewed = FALSE,
                            !.ratings = <<>>]
    /\ UNCHANGED <<chain, pending_transactions, validators, accounts,
                   contracts, processed_tx_hashes, store, stops, p2p, threads>>

NextSelect ==
    \/ SelectSubmit
    \/ SelectMine
    \/ SelectValidator
    \/ SelectTick

SpecSelect == InitSelect /\ [][NextSelect]_vars

----------------------------------------------------------------------------
(* Properties of a running node *)

Bal(accts, a) == IF a \in DOMAIN accts THEN accts[a].balance ELSE 0

AllAddresses == special_addresses \cup UserAddrs \cup ContractAddrs

BlockAppended == last.op \in {"mine_block", "add_block"} /\ last.txlog # <<>>

\* C1: once a transaction has been processed in a block of the chain, an
\* add_transaction call with a transaction of that hash returns False and
\* leaves the mempool as it was.
ReplayRejected ==
    [][(last'.op = "add_transaction" /\ last'.replay)
          => (~last'.ok /\ pending_transactions' = pending_transactions)]_vars

ReplayRejectedWitness ==
    last.op = "add_transaction" /\ last.replay /\ ~last.ok

RECURSIVE AppliedDebits(_, _)
\* what the successful update_balance calls of a log took from address a
AppliedDebits(ublog, a) ==
    IF ublog = <<>> THEN 0
    ELSE (IF Head(ublog).address = a /\ ~Head(ublog).raised
             /\ Head(ublog).amount < 0
          THEN 0 - Head(ublog).amount ELSE 0)
         + AppliedDebits(Tail(ublog), a)

\* C2: the transactions of an appended block debit no account by more than
\* the balance the account had when the block started.
NoOverspendInBlock ==
    BlockAppended =>
        \A a \in AllAddresses :
            AppliedDebits(last.ublog, a) <= Bal(last.start, a)

\* C3: every balance lies in 0..MAX_BALANCE, and an update_balance call
\* whose result would leave that range raises and leaves the balance as it
\* was (and only such a call raises).
BalanceBounds ==
    /\ \A a \in DOMAIN accounts :
          accounts[a].balance >= 0 /\ accounts[a].balance <= MAX_BALANCE
    /\ \A a \in DOMAIN store.account :
          store.account[a].balance >= 0 /\ store.account[a].balance <= MAX_BALANCE
    /\ \A i \in 1..Len(last.ublog) :
          LET e == last.ublog[i]
              out == e.old_balance + e.amount < 0
                        \/ e.old_balance + e.amount > MAX_BALANCE
          IN  /\ e.raised <=> out
              /\ e.raised => e.balance_after = e.old_balance
              /\ ~e.raised => e.balance_after = e.old_balance + e.amount

BalanceBoundsWitness ==
    \E i \in 1..Len(last.ublog) :
        /\ last.ublog[i].raised
        /\ last.ublog[i].old_balance + last.ublog[i].amount > MAX_BALANCE

RECURSIVE ChainTxs(_)
\* the transactions of a chain in the order they were processed
ChainTxs(c) ==
    IF c = <<>> THEN <<>> ELSE Head(c).transactions \o ChainTxs(Tail(c))

OutgoingNonces(c, a) ==
    LET txs == SelectSeq(ChainTxs(c), LAMBDA tx : tx.from_address = a)
    IN  [i \in 1..Len(txs) |-> txs[i].nonce]

\* C4: for every account, two outgoing transactions processed one after
\* the other carry consecutive nonces.
NonceMonotonic ==
    \A a \in AllAddresses :
        LET ns == OutgoingNonces(chain, a)
        IN  \A i \in 1..Len(ns) - 1 : ns[i + 1] = ns[i] + 1

\* C5: a contract deployment or call whose processing raises leaves the
\* sender's balance as it was before the transaction.
FailedContractTxNetZero ==
    \A i \in 1..Len(last.txlog) :
        LET e == last.txlog[i]
        IN  (IsContractKind(e.tx) /\ e.raised)
                => Bal(e.after, e.tx.from_address) = Bal(e.before, e.tx.from_address)

\* C6: processing a TRANSFER or STAKE is all-or-nothing for balances: if it
\* raises no balance has changed, otherwise the amount has moved and the gas
\* has been paid.
TransferAllOrNothing ==
    \A i \in 1..Len(last.txlog) :
        LET e == last.txlog[i]
            from == e.tx.from_address
            to == IF e.tx.transaction_type.value = "stake"
                  THEN "stake_pool" ELSE e.tx.to_address
            cost == e.tx.amount + GasCost(e.tx.gas_limit)
        IN  e.tx.transaction_type.value \in {"transfer", "stake"} =>
               IF e.raised
               THEN \A a \in AllAddresses : Bal(e.after, a) = Bal(e.before, a)
               ELSE /\ Bal(e.after, from) =
                          Bal(e.before, from) - cost
                             + (IF to = from THEN e.tx.amount ELSE 0)
                    /\ to # from =>
                          Bal(e.after, to) = Bal(e.before, to) + e.tx.amount

\* C7: the chain starts with the genesis block, every block sits at its
\* index and names the hash of the block before it, and the chain changes
\* only by one block being appended.
ChainLinked ==
    /\ [](/\ Len(chain) >= 1
          /\ chain[1].index = 0
          /\ chain[1].previous_hash = <<"0">>
          /\ chain[1].validator = "genesis"
          /\ chain[1].timestamp = GENESIS_TIMESTAMP
          /\ \A i \in 2..Len(chain) :
                /\ chain[i].index = i - 1
                /\ chain[i].previous_hash = chain[i - 1].hash)
    /\ [][chain' # chain =>
             /\ Len(chain') = Len(chain) + 1
             /\ SubSeq(chain', 1, Len(chain)) = chain]_vars

ChainLinkedWitness ==
    /\ Len(chain) >= 2
    /\ last.op = "add_block" /\ ~last.ok /\ ~last.raised

\* C8: every block of the chain and of the store carries the hash of its
\* current fields, and so does every transaction in it.
HashesMatchFields ==
    /\ \A i \in 1..Len(chain) :
          /\ chain[i].hash = Block_calculate_hash(chain[i])
          /\ \A j \in 1..Len(chain[i].transactions) :
                chain[i].transactions[j].hash =
                    Transaction_calculate_hash(chain[i].transactions[j])
    /\ \A k \in DOMAIN store.block :
          /\ store.block[k].hash = Block_calculate_hash(store.block[k])
          /\ \A j \in 1..Len(store.block[k].transactions) :
                store.block[k].transactions[j].hash =
                    Transaction_calculate_hash(store.block[k].transactions[j])

----------------------------------------------------------------------------
(* Properties of a node that stops and starts again *)

\* C9: closing the node and starting a new one on the same store gives the
\* chain, the accounts, the validators and the contracts the node had just
\* before.
PersistenceRoundTrip ==
    [][last'.op = "restart" =>
          /\ Len(chain') = Len(chain)
          /\ \A i \in 1..Len(chain) :
                i <= Len(chain') => Block_to_dict(chain'[i]) = Block_to_dict(chain[i])
          /\ accounts' = accounts
          /\ validators' = validators
          /\ contracts' = contracts]_vars

\* the transaction as it was when the block was built
AsSubmitted(tx) == [tx EXCEPT !.transaction_type = Enum(@.value)]

RECURSIVE DeployedAddresses(_)
\* the addresses the deployments of a processed block received
DeployedAddresses(txs) ==
    IF txs = <<>> THEN <<>>
    ELSE (IF IsDeploy(Head(txs))
          THEN <<IF "deployed_address" \in DOMAIN Head(txs).data
                 THEN Head(txs).data["deployed_address"]
                 ELSE ContractAddrPool[1]>>
          ELSE <<>>) \o DeployedAddresses(Tail(txs))

RECURSIVE ApplyBlocks(_, _, _)
\* the node after the blocks c[i], c[i+1], ... have been applied to n
ApplyBlocks(n, c, i) ==
    IF i > Len(c) THEN n
    ELSE Only({Only({ApplyBlocks([n1 EXCEPT !.exc = FALSE], c, i + 1)
                     : n1 \in {update_balance(p.node, c[i].validator,
                                              block_reward)}})
               : p \in {Only({ProcessAll(n, txs, DeployedAddresses(txs))
                              : txs \in {[j \in 1..Len(c[i].transactions) |->
                                           AsSubmitted(c[i].transactions[j])]}})}})

\* C10: when the node stops between two store writes of add_block, the
\* balances and the contracts the new node loads are those that applying
\* the blocks of the loaded chain gives.
CrashConsistent ==
    last.op = "crash" =>
        \E r \in {ApplyBlocks(StartNode(EmptyStore), chain, 2)} :
            /\ \A a \in AllAddresses : Bal(accounts, a) = Bal(r.accounts, a)
            /\ DOMAIN contracts = DOMAIN r.contracts
            /\ \A c \in DOMAIN contracts \cap DOMAIN r.contracts :
                  contracts[c].data = r.contracts[c].data

----------------------------------------------------------------------------
(* Mempool, block acceptance and validators *)

\* C14: the mempool never holds two entries with the same hash, nor two
\* entries with the same sender and nonce, nor more than MEMPOOL_CAP entries.
MempoolWellFormed ==
    /\ Cardinality({pending_transactions[i].hash
                      : i \in 1..Len(pending_transactions)})
          = Len(pending_transactions)
    /\ Cardinality({<<pending_transactions[i].from_address,
                      pending_transactions[i].nonce>>
                      : i \in 1..Len(pending_transactions)})
          = Len(pending_transactions)
    /\ Len(pending_transactions) <= MEMPOOL_CAP

\* the mempool holds MEMPOOL_CAP entries and add_transaction has refused a
\* transfer whose hash, and whose sender and nonce, no entry has
MempoolWellFormedWitness ==
    /\ Len(pending_transactions) = MEMPOOL_CAP
    /\ last.op = "add_transaction"
    /\ ~last.ok
    /\ "tx" \in DOMAIN last
    /\ \A i \in 1..Len(pending_transactions) :
          /\ pending_transactions[i].hash # last.tx.hash
          /\ pending_transactions[i].nonce # last.tx.nonce

\* the transfer of the worked example: 100 tokens from genesis to A
ExampleTransfer ==
    Transaction("genesis", "A", 100 * Unit, "transfer", NoData, 21000, 1, 0)

\* C15: on a fresh node, after the example transfer is admitted and mined,
\* A has 100, genesis has 10,000,000 - 100 - 21 = 9,999,879, the nonce of
\* genesis is 1 and the chain has two blocks.
ExampleTransferOutcome ==
    (/\ last.op = "mine_block"
     /\ last.ok
     /\ DOMAIN last.start = {"genesis"}
     /\ last.start["genesis"].balance = GENESIS_SUPPLY
     /\ last.start["genesis"].nonce = 0
     /\ Len(last.txlog) = 1
     /\ last.txlog[1].tx = ExampleTransfer)
    => /\ Bal(accounts, "A") = 100 * Unit
       /\ Bal(accounts, "genesis") = 999987900
       /\ accounts["genesis"].nonce = 1
       /\ Len(chain) = 2

\* the four conditions under which a block is not acceptable
Unacceptable(block) ==
    \/ block.index # Len(chain)
    \/ block.previous_hash # chain[Len(chain)].hash
    \/ (block.validator # "genesis" /\ block.validator \notin DOMAIN validators)
    \/ block.hash # Block_calculate_hash(block)

\* C16: add_block returns False and changes nothing for a block with a wrong
\* index, a wrong previous_hash, an unknown validator or a wrong hash; and
\* whenever add_block returns False nothing has changed.
InvalidBlockRejected ==
    /\ [](\A block \in PeerBlocks :
             Unacceptable(block) =>
                \A r \in {add_block(Node, block, FALSE, <<>>)} :
                   ~r.ok /\ ~r.node.exc /\ r.node = Node)
    /\ [][(last'.op = "add_block" /\ ~last'.ok /\ ~last'.raised)
             => UNCHANGED <<chain, pending_transactions, validators, accounts,
                            contracts, processed_tx_hashes, store>>]_vars

\* another block for the height of the tip was offered and refused, with
\* transactions pending and a block already appended
InvalidBlockRejectedWitness ==
    /\ last.op = "add_block"
    /\ ~last.ok
    /\ ~last.raised
    /\ Len(chain) >= 2
    /\ pending_transactions # <<>>
    /\ \E block \in PeerBlocks :
          /\ block.index = Len(chain) - 1
          /\ block.previous_hash = chain[Len(chain)].previous_hash
          /\ block.hash # chain[Len(chain)].hash
          /\ Unacceptable(block)

RECURSIVE WithoutHashes(_, _)
\* the entries of a list whose hash is not in hs, in their order
WithoutHashes(seq, hs) ==
    IF seq = <<>> THEN <<>>
    ELSE (IF Head(seq).hash \in hs THEN <<>> ELSE <<Head(seq)>>)
         \o WithoutHashes(Tail(seq), hs)

\* C17: when a block is appended every transaction of it was processed in
\* block order, one that raised was skipped, and afterwards no transaction
\* of the block is in the mempool while the other entries keep their order.
SkippedAndRemoved ==
    [][(last'.op \in {"mine_block", "add_block"} /\ Len(chain') = Len(chain) + 1)
          => \A b \in {chain'[Len(chain')]} :
                /\ Len(last'.txlog) = Len(b.transactions)
                /\ \A j \in 1..Len(b.transactions) :
                      last'.txlog[j].tx.hash = b.transactions[j].hash
                /\ pending_transactions' =
                      WithoutHashes(pending_transactions,
                                    {b.transactions[j].hash :
                                        j \in 1..Len(b.transactions)})]_vars

\* the STAKE transactions of at least the minimum stake in the chain
StakedAddresses(c) ==
    {ChainTxs(c)[k].from_address :
        k \in {k \in 1..Len(ChainTxs(c)) :
                  /\ ChainTxs(c)[k].transaction_type.value = "stake"
                  /\ ChainTxs(c)[k].amount >= minimum_stake}}

\* C18: every key of the validator map is the sender of a STAKE transaction
\* of at least the minimum stake in a block of the chain.
ValidatorsHaveStaked ==
    DOMAIN validators \subseteq StakedAddresses(chain)

\* C19: a block that mine_block appends names an active registered validator
\* as its proposer whenever one exists (the only one when there is just
\* one), and names "genesis" otherwise.
ProposerIsActiveValidator ==
    [][(last'.op = "mine_block" /\ Len(chain') = Len(chain) + 1)
          => \A b \in {chain'[Len(chain')]} :
                IF ActiveValidators(Node) # {}
                THEN b.validator \in ActiveValidators(Node)
                ELSE b.validator = "genesis"]_vars

\* "genesis" proposed while no validator existed, and with two registered
\* validators the one registered last proposed a block
ProposerIsActiveValidatorWitness ==
    /\ last.op = "mine_block"
    /\ last.ok
    /\ Len(chain) = 4
    /\ chain[2].validator = "genesis"
    /\ chain[4].validator = "B"
    /\ DOMAIN validators = {"A", "B"}

\* C20: no pending transaction is sent by stake_pool, none but a STAKE is
\* sent to stake_pool, and the balance of stake_pool never decreases on a
\* node that applies only the blocks it mines.
StakePoolOnlySink ==
    /\ [](\A i \in 1..Len(pending_transactions) :
             /\ pending_transactions[i].from_address # "stake_pool"
             /\ pending_transactions[i].to_address = "stake_pool"
                   => pending_transactions[i].transaction_type.value = "stake")
    /\ [][Bal(accounts', "stake_pool") >= Bal(accounts, "stake_pool")]_vars

\* stake_pool holds a stake and a transaction it would send was refused
StakePoolOnlySinkWitness ==
    /\ Bal(accounts, "stake_pool") >= minimum_stake
    /\ last.op = "add_transaction"
    /\ ~last.ok
    /\ last.tx.from_address = "stake_pool"
    /\ Bal(accounts, "stake_pool") >= last.tx.amount + GasCost(last.tx.gas_limit)

----------------------------------------------------------------------------
(* Two nodes *)

PeerHashes == {p2p.peer.chain[i].hash : i \in 1..Len(p2p.peer.chain)}

\* the chain of the peer is the chain of this node cut at some height
PeerOnSameChain ==
    /\ Len(p2p.peer.chain) <= Len(chain)
    /\ \A i \in 1..Len(p2p.peer.chain) : p2p.peer.chain[i].hash = chain[i].hash

\* every block the peer received two or more heights above its tip is in
\* the chain of the peer
Backfilled == p2p.ahead \subseteq PeerHashes

\* C11: a node that receives a valid block two or more heights above its tip
\* fetches the missing ancestors from the sender and appends them and the
\* block: as long as the peer mines no block of its own, every such block
\* is in its chain in the end.
BackfillsMissingAncestors == []<>(Backfilled \/ ~PeerOnSameChain)

\* the peer handles the block message of the block this node has just mined,
\* and was in the state of this node when this node mined it
DeliveredToIdenticalPeer ==
    /\ last.op = "mine_block"
    /\ last.ok
    /\ last'.op = "handle_incoming_block"
    /\ Head(p2p.to_peer).payload.hash = chain[Len(chain)].hash
    /\ \A i \in 1..Len(chain) - 1 : chain[i].hash \in PeerHashes
    /\ Len(p2p.peer.chain) = Len(chain) - 1
    /\ p2p.peer.accounts = last.start
    /\ p2p.peer.validators = last.validators

\* C12: when two nodes have the same chain, accounts and validators, one of
\* them mines a block and the serialized block is delivered to the other,
\* the other appends it, and its chain, balances and nonces are then those
\* of the first.
IdenticalPeerAppends ==
    [][DeliveredToIdenticalPeer =>
          /\ Len(p2p'.peer.chain) = Len(chain)
          /\ \A i \in 1..Len(chain) : p2p'.peer.chain[i].hash = chain[i].hash
          /\ \A a \in AllAddresses \cup DOMAIN accounts
                                   \cup DOMAIN p2p'.peer.accounts :
                /\ a \in DOMAIN accounts <=> a \in DOMAIN p2p'.peer.accounts
                /\ a \in DOMAIN accounts =>
                      /\ p2p'.peer.accounts[a].balance = accounts[a].balance
                      /\ p2p'.peer.accounts[a].nonce = accounts[a].nonce]_vars

----------------------------------------------------------------------------
(* Threads *)

\* C13: with the mining loop, the RPC threads and the P2P handler running
\* on one node, the chain is one that the operations run one after another
\* could have built: no two blocks were appended for one height, every
\* block sits at its index and names the hash of the block before it.
SerialChain ==
    \A i \in 2..Len(chain) :
        /\ chain[i].index = i - 1
        /\ chain[i].previous_hash = chain[i - 1].hash
        /\ \A j \in 1..(i - 1) : chain[j].index # chain[i].index

----------------------------------------------------------------------------
(* Validator penalties *)

\* C21: whatever penalties, credits, rehabilitation and community overrides
\* a validator has received, its penalty multiplier is between 1.0 and 5.0
\* and its rehabilitation progress between 0 and 100.
PenaltyBounds ==
    \A a \in DOMAIN validators :
        /\ validators[a].current_penalty_multiplier >= 1 * PenaltyUnit
        /\ validators[a].current_penalty_multiplier <= 5 * PenaltyUnit
        /\ validators[a].rehabilitation_progress >= 0
        /\ validators[a].rehabilitation_progress <= 100


----------------------------------------------------------------------------
(* Genesis *)

\* C22: two nodes constructed on empty stores hold the same block 0, with
\* index 0, timestamp 1640995200.0, no transactions, previous hash '0' and
\* validator 'genesis', and hence the same block-0 hash, whenever they were
\* started and whatever their settings.
SameGenesis ==
    /\ chain[1] = p2p.peer.chain[1]
    /\ chain[1].hash = p2p.peer.chain[1].hash
    /\ chain[1].index = 0
    /\ chain[1].timestamp = GENESIS_TIMESTAMP
    /\ chain[1].transactions = <<>>
    /\ chain[1].previous_hash = <<"0">>
    /\ chain[1].validator = "genesis"
    /\ chain[1].hash = Block_calculate_hash(chain[1])

SameGenesisWitness ==
    /\ "started" \in DOMAIN last
    /\ last.started.t # last.started.peer_t
    /\ last.started.test_mode # last.started.peer_test_mode
    /\ Len(chain) = 1
    /\ Len(p2p.peer.chain) = 1


----------------------------------------------------------------------------
(* Contract state *)

\* the value the calls so far have left under key: the last one written, or
\* else the one of the initial state
LastSetState(key) ==
    IF key \in DOMAIN ContractHistory.written
    THEN ContractHistory.written[key]
    ELSE IF key \in DOMAIN DeployData["initial_state"]
    THEN DeployData["initial_state"][key]
    ELSE NoneVal

\* the keys of the initial state and the keys written so far
KnownKeys ==
    DOMAIN DeployData["initial_state"] \cup DOMAIN ContractHistory.written

ReadsLastSetStateOf(keys) ==
    \A addr \in ContractHistory.deployed \cap {ContractAddrPool[1]} :
        \A key \in keys :
            get_contract_state(Node, addr, key)
                = [raised |-> FALSE, result |-> LastSetState(key)]

----------------------------------------------------------------------------
(* Source validation *)

\* C24: no contract whose code source validation rejects (an import, a with
\* block, a try block, a lambda, a forbidden identifier, or too much
\* validation gas) is registered in the contract engine or written to the
\* store.
RejectedSourceNotDeployed ==
    /\ \A c \in DOMAIN contracts :
          validate_contract_source(contracts[c].code, ValidationGas)
    /\ \A c \in DOMAIN store.contract :
          validate_contract_source(store.contract[c].code, ValidationGas)


----------------------------------------------------------------------------
(* Repeated messages *)

\* C25: a block message for a block that is in the chain at its index with
\* its hash, and a transaction message whose hash is among the processed or
\* the pending ones, change nothing of the node and send no message.
RepeatedMessageIgnored ==
    [][(/\ "message" \in DOMAIN last'
        /\ \/ /\ last'.message.type = "block"
              /\ BlockIsInChain(last'.message.payload)
           \/ /\ last'.message.type = "transaction"
              /\ TransactionIsKnown(last'.message.payload))
       => /\ UNCHANGED <<chain, pending_transactions, validators, accounts,
                         contracts, processed_tx_hashes, store>>
          /\ last'.sent = <<>>]_vars

RepeatedMessageIgnoredWitness ==
    /\ "repeats" \in DOMAIN last
    /\ last.repeats = {"block", "transaction"}
    /\ Len(chain) = 3
    /\ pending_transactions # <<>>


----------------------------------------------------------------------------
(* Requests for a block *)

\* C26: to a request_block message the node replies with exactly one
\* block_response that carries the block at the index asked for when the
\* index is at least 0 and below the length of the chain, and with nothing
\* when the index is past the end, negative or missing.
RequestBlockReply ==
    ("message" \in DOMAIN last /\ last.message.type = "request_block")
    => LET request_data == last.message.payload
       IN  IF /\ "index" \in DOMAIN request_data
              /\ 0 <= request_data.index
              /\ request_data.index < Len(chain)
           THEN last.sent = <<[type |-> "block_response",
                               payload |-> Block_to_dict(
                                              chain[request_data.index + 1])]>>
           ELSE last.sent = <<>>


----------------------------------------------------------------------------
(* Nonces *)

\* add_transaction has just accepted a transaction of a sender other than
\* genesis that has an account
AcceptsOfAccount ==
    /\ last'.op = "add_transaction"
    /\ last'.ok
    /\ "tx" \in DOMAIN last'
    /\ last'.tx.from_address # "genesis"
    /\ last'.tx.from_address \in DOMAIN accounts

\* the accepted transaction carries the nonce of the account, and no pending
\* transaction had its sender and nonce
AcceptedInTurn ==
    /\ last'.tx.nonce = accounts[last'.tx.from_address].nonce
    /\ \A i \in 1..Len(pending_transactions) :
          ~(/\ pending_transactions[i].from_address = last'.tx.from_address
            /\ pending_transactions[i].nonce = last'.tx.nonce)

\* add_transaction has just been called with a transaction of genesis whose
\* nonce is below that of the account
GenesisNonceBelow ==
    /\ last'.op = "add_transaction"
    /\ "tx" \in DOMAIN last'
    /\ last'.tx.from_address = "genesis"
    /\ last'.tx.nonce < accounts["genesis"].nonce

OnePendingPerSender ==
    \A i, j \in 1..Len(pending_transactions) :
        (i # j /\ pending_transactions[i].from_address
                     = pending_transactions[j].from_address)
        => pending_transactions[i].from_address = "genesis"

\* C27: add_transaction accepts a transaction of a sender other than genesis
\* that has an account only with the nonce of the account and when no
\* pending transaction has its sender and nonce, so that at most one
\* transaction of such a sender is pending at any time; a transaction of
\* genesis with a nonce below that of the account is rejected.
NonceRule ==
    /\ [][/\ AcceptsOfAccount => AcceptedInTurn
          /\ GenesisNonceBelow => ~last'.ok]_vars
    /\ []OnePendingPerSender


----------------------------------------------------------------------------
(* Refused transactions *)

\* C28: an add_transaction call that returns False leaves the mempool, the
\* balance and the nonce of every account, that of genesis included, the
\* processed hashes and the store as they were.
RefusalChangesNothing ==
    [][(last'.op = "add_transaction" /\ ~last'.ok)
       => UNCHANGED <<pending_transactions, accounts, processed_tx_hashes,
                      store>>]_vars


----------------------------------------------------------------------------
(* The exchange of requests and responses *)

\* C29: between two connected nodes with the same genesis block, forked
\* chains included, the delivery of a block message sets off finitely many
\* request_block and block_response messages: from some moment on no
\* message is on the connection.
ExchangeEnds == <>[](p2p.to_peer = <<>> /\ p2p.to_node = <<>>)


----------------------------------------------------------------------------
(* Processed hashes and the chain *)

\* C30: in every state, the one right after a start from the store included,
\* the processed hashes contain the hash of every transaction in a block of
\* the chain.
ChainHashesProcessed == ChainTxHashes(chain) \subseteq processed_tx_hashes


----------------------------------------------------------------------------
(* register_validator *)

\* the reasons for which register_validator refuses before it builds the
\* STAKE transaction
RegisterRefused(address, stake_amount) ==
    \/ address = ""
    \/ (address # "genesis" /\ ~is_valid_address(address))
    \/ address \in DOMAIN validators
    \/ stake_amount < minimum_stake
    \/ address \notin DOMAIN accounts
    \/ accounts[address].balance < stake_amount + 10 * Unit

\* C31: register_validator(address, stake) returns False and leaves the
\* validators, the mempool and the ledger as they were when the address is
\* empty or invalid, the address is a validator already, the stake is below
\* the minimum, the account does not exist or cannot cover the stake plus
\* gas, or the STAKE transaction is not admitted; when it returns True, the
\* mempool has grown by exactly one STAKE transaction from the address to
\* stake_pool with the stake as amount and the account's nonce, the ledger is
\* unchanged and the address is the one new validator.
RegisterValidatorOutcome ==
    [][last'.op = "register_validator" =>
         LET address == last'.address
             stake_amount == last'.stake_amount
         IN  /\ RegisterRefused(address, stake_amount) => ~last'.ok
             /\ ~last'.ok =>
                  UNCHANGED <<validators, pending_transactions, accounts>>
             /\ last'.ok =>
                  /\ Len(pending_transactions') = Len(pending_transactions) + 1
                  /\ SubSeq(pending_transactions', 1, Len(pending_transactions))
                        = pending_transactions
                  /\ LET tx == pending_transactions'[Len(pending_transactions')]
                     IN  /\ tx.transaction_type.value = "stake"
                         /\ tx.from_address = address
                         /\ tx.to_address = "stake_pool"
                         /\ tx.amount = stake_amount
                         /\ tx.nonce = accounts[address].nonce
                  /\ accounts' = accounts
                  /\ DOMAIN validators' = DOMAIN validators \cup {address}
                  /\ address \notin DOMAIN validators]_vars

\* register_validator has returned True for a funded account
RegisterValidatorAccepted ==
    /\ last.op = "register_validator"
    /\ last.ok
    /\ last.address = "A"
    /\ \E i \in 1..Len(pending_transactions) :
          /\ pending_transactions[i].from_address = "A"
          /\ pending_transactions[i].transaction_type.value = "stake"

----------------------------------------------------------------------------
(* The block reward *)

\* the balance of an address in a ledger, 0 when it has no account
BalanceIn(ledger, address) ==
    IF address \in DOMAIN ledger THEN ledger[address].balance ELSE 0

----------------------------------------------------------------------------
(* The transactions of a new block *)

\* the hashes of a list of transactions
HashesOf(txs) == [i \in 1..Len(txs) |-> txs[i].hash]

\* the hashes admitted and not yet in a block, in the order of admission
AdmittedPending ==
    SelectSeq(last.admitted, LAMBDA h : h \notin ChainTxHashes(chain))

\* create_block on the node as it is: the first min(100, |mempool|)
\* transactions admitted and still pending, in that order, on the tip
CreateBlockTakesFirst ==
    \A validator_address \in {"genesis", "A"} :
        LET block == create_block(Node, validator_address, now)
            k == Min(100, Len(pending_transactions))
        IN  /\ Len(block.transactions) = k
            /\ HashesOf(block.transactions) = SubSeq(AdmittedPending, 1, k)
            /\ block.transactions = SubSeq(pending_transactions, 1, k)
            /\ block.index = Len(chain)
            /\ block.previous_hash = chain[Len(chain)].hash

\* the block that mine_block appends holds the transactions create_block
\* took, and add_block has processed them in that order
AppliedInBlockOrder ==
    (last'.op = "mine_block" /\ Len(chain') = Len(chain) + 1) =>
        LET k == Min(100, Len(pending_transactions))
        IN  /\ HashesOf(chain'[Len(chain')].transactions)
                  = SubSeq(AdmittedPending, 1, k)
            /\ Len(last'.txlog) = k
            /\ \A i \in 1..k :
                  last'.txlog[i].tx.hash = pending_transactions[i].hash

\* C33: create_block builds a block whose transactions are exactly the first
\* min(100, |mempool|) pending transactions in the order of their admission,
\* with index equal to the chain length and previous_hash equal to the hash
\* of the tip, and it leaves the mempool alone; add_block then applies them
\* in that order.
BlockTakesFirstAdmitted ==
    /\ []CreateBlockTakesFirst
    /\ [][AppliedInBlockOrder]_vars

\* the mempool holds more than a block takes, and the block takes 100
BlockTakesFirstAdmittedWitness ==
    /\ Len(pending_transactions) > 100
    /\ last.op = "add_transaction"
    /\ last.ok
    /\ Len(create_block(Node, "genesis", now).transactions) = 100

----------------------------------------------------------------------------
(* A contract call that raises *)

\* C34: if processing a CONTRACT_CALL transaction raises at any step, the
\* data of the contract in memory and its stored record are what they were
\* before the transaction.  Checked on whole blocks: when a block deploys
\* nothing and every contract call in it has raised, no contract's data and
\* no stored contract record differs from before the block.
FailedCallRevertsContract ==
    [][(/\ last'.txlog # <<>>
        /\ \A i \in 1..Len(last'.txlog) :
              /\ ~IsDeploy(last'.txlog[i].tx)
              /\ last'.txlog[i].tx.transaction_type.value = "contract_call"
                    => last'.txlog[i].raised)
       => /\ DOMAIN contracts' = DOMAIN contracts
          /\ \A a \in DOMAIN contracts : contracts'[a].data = contracts[a].data
          /\ store'.contract = store.contract]_vars

----------------------------------------------------------------------------
(* The score cache *)

\* C35: every operation that changes an input of the PoCS formula
\* invalidates the score cache: a calculate_pocs_score call without
\* force_recalculate on a validator with an input changed since its score
\* was last computed returns the score of the values the validator has now.
ChangedInputsRecalculated ==
    [][(/\ last'.op = "calculate_pocs_score"
        /\ ~last'.force
        /\ last'.address \in last.changed)
       => last'.score = PocsScore(validators[last'.address], now)]_vars

----------------------------------------------------------------------------
(* apply_penalty and earn_contribution_credits *)

\* the entries of a penalty history not older than thirty days at time t
RecentEntries(penalty_history, t) ==
    Cardinality({i \in 1..Len(penalty_history) :
                    t - penalty_history[i].timestamp < ThirtyDays})

CreditsEarned ==
    last'.op = "earn_contribution_credits" =>
        LET before == validators[last'.address]
            after == validators'[last'.address]
            c == last'.credits
        IN  /\ after.contribution_credits = before.contribution_credits + c
            /\ IF before.rehabilitation_progress + c >= 100
               THEN /\ after.rehabilitation_progress = 0
                    /\ after.current_penalty_multiplier =
                          Max(1 * PenaltyUnit,
                              (before.current_penalty_multiplier * 8) \div 10)
               ELSE /\ after.rehabilitation_progress =
                          before.rehabilitation_progress + c
                    /\ after.current_penalty_multiplier =
                          before.current_penalty_multiplier

\* one penalty on the fresh validator and then 20 rounds of 5 credits: at
\* least one cycle is complete and the multiplier is below what it was right
\* after the penalty
TwentyRounds ==
    (last.penalty_first /\ last.rounds_only /\ last.rounds = 20)
        => /\ last.cycles >= 1
           /\ validators[last.address].current_penalty_multiplier
                 < last.after_penalty

\* C37: earn_contribution_credits(activity, c) with c > 0 adds c to
\* contribution_credits and c to rehabilitation_progress; each time the
\* progress reaches 100 the multiplier becomes max(1.0, 0.8 * multiplier) and
\* the progress restarts at 0, so that one penalty on a fresh validator
\* followed by 20 rounds of 5.0 credits completes at least one cycle and
\* leaves the multiplier below its value right after the penalty.
RehabilitationByCredits ==
    /\ [][CreditsEarned]_vars
    /\ []TwentyRounds

\* the twentieth round after the one penalty has completed the cycle
RehabilitationByCreditsWitness ==
    /\ last.op = "earn_contribution_credits"
    /\ last.penalty_first
    /\ last.rounds_only
    /\ last.rounds = 20
    /\ last.cycles = 1
    /\ validators[last.address].rehabilitation_progress = 0

----------------------------------------------------------------------------
(* Peer ratings, review rounds, and activity at selection *)

\* the mean of ratings, a function of the reviewers to their ratings
MeanRating(ratings) == SumOfRatings(ratings) \div Cardinality(DOMAIN ratings)

\* C38: the average_peer_rating of a validator E is the mean of the ratings
\* that other validators gave E, and 100 while E has received none; the
\* ratings E has given to others do not enter it.
AverageOfReceivedRatings ==
    \A e \in DOMAIN validators :
        validators[e].average_peer_rating =
            IF e \in DOMAIN last.received
            THEN MeanRating(last.received[e])
            ELSE 100 * ScoreUnit

\* C39: a peer review round runs on every append that brings the length of
\* the chain to a multiple of 5 while at least 2 validators exist, whoever
\* proposed the block, 'genesis' included, and no round runs at any other
\* length.
ReviewEveryFifthBlock ==
    [][Len(chain') = Len(chain) + 1 =>
          (last'.reviewed <=>
              (Len(chain') % 5 = 0 /\ Cardinality(DOMAIN validators') >= 2))]_vars

\* C40: select_validator leaves last_activity as it was for the validators
\* it does not select, so that a validator inactive for d days is scored
\* with days_inactive = d.
SelectionKeepsActivity ==
    [][last'.op = "select_validator" =>
          \A a \in DOMAIN validators \ {last'.validator} :
              /\ validators'[a].last_activity = validators[a].last_activity
              /\ a \in DOMAIN last'.score
                    => last'.score[a] = PocsScore(validators[a], now)]_vars

====
